---- MODULE Spec2Model ----
(***************************************************************************)
(* Plugin loader of ytdlp_plugins (src/ytdlp_plugins/__init__.py), the 429 *)
(* retry loop of the auf1 extractor (Auf1IE.call_with_retries), the        *)
(* patches of the host (src/ytdlp_plugins/patching.py) and                 *)
(* estimate_filesize (src/ytdlp_plugins/utils.py).                         *)
(*                                                                         *)
(* Names (module names, class names, paths) are sequences of tokens, so    *)
(* that str.startswith, str.endswith, str.split and Path.parents are       *)
(* computed on them and not assumed.  A class object is the record         *)
(* [name, mod, ex]: its __name__, its __module__ and the number of the     *)
(* execution of that module's code that created it (0 for the host's own   *)
(* classes): executing a module's code again creates new class objects.    *)
(***************************************************************************)
EXTENDS Bags, FiniteSets, Integers, Sequences, TLC

VARIABLES
    initialized,   \* _INITIALIZED
    meta_path,     \* sys.meta_path, the finders installed by this package
    sys_path,      \* sys.path
    pkg_path,      \* sys.modules, the namespace packages and their __path__
    sys_modules,   \* sys.modules, the plugin modules (0: absent, n: n-th execution)
    execs,         \* how often each plugin module's code has been executed
    zip_cache,     \* PluginFinder._zip_content_cache (its keys)
    ns_ie,         \* yt_dlp.extractor.__dict__
    ns_pp,         \* yt_dlp.postprocessor.__dict__
    all_classes,   \* yt_dlp.extractor._ALL_CLASSES
    FOUND,         \* FOUND
    OVERRIDDEN,    \* OVERRIDDEN
    ie_plugins,    \* add_plugins: the mapping returned for "extractor"
    pp_plugins,    \* add_plugins: the mapping returned for "postprocessor"
    installed,     \* the plugin files present in the plugin directory
    site_dirs,     \* the subpackage directories present in the plugin directory
    last_op,       \* history: the operation called last
    prev_op,       \* history: the operation called before it
    was_reset,     \* history: reset() was called since the last add_plugins()
    collected,     \* history: (module, attribute, class) collected by the last add_plugins
    lost,          \* history: classes whose binding was replaced since the last reset
    snaps,         \* history: the registry as each add_plugins call left it
    rt_pc,         \* call_with_retries: position in the loop
    max_duration_s,    \* call_with_retries: max_duration_s
    sleep_duration_s,  \* call_with_retries: sleep_duration_s
    attempt_count,     \* call_with_retries: attempt_count (saturating, see MaxShown)
    elapsed,           \* call_with_retries: time.time() - start of the failed attempt
    errorcode,         \* call_with_retries: errorcode of the failed attempt
    fd_pc,             \* PluginFinder.search_locations: not called, returned or raised
    fd_fullname,       \* PluginFinder.search_locations: its argument
    fd_locations,      \* PluginFinder.search_locations: the list returned
    host_attrs,        \* yt_dlp.utils.bug_reports_message, YoutubeDL.print_debug_header
    fn_globals,        \* the __globals__ of yt_dlp.YoutubeDL's functions
    mock_saved,        \* _PATCHES[0], _PATCHES[1]: temp_original of each patcher
    pfg_patch,         \* _PATCHES[2]: the patch_function_globals instance
    pfg_user,          \* a patch_function_globals instance the caller constructs
    warned,            \* the RuntimeWarnings emitted: the name each one shows
    blocks,            \* the patch_context() blocks entered and not left
    pt_last,           \* history: the patching operation done last
    br_call,           \* history: the last call of yt_dlp.utils.bug_reports_message
    ef_pc,             \* estimate_filesize: not called, or returned
    formats,           \* estimate_filesize: its list argument
    duration,          \* estimate_filesize: its duration argument
    ef_before,         \* history: the list as it was passed
    dh_log,            \* plugin_debug_header: what the last call wrote and called, in order
    dh_result,         \* plugin_debug_header: what the last call returned
    fd_spec,           \* PluginFinder.find_spec: what the last call returned
    zip_reads,         \* history: how often each archive was read since the cache was last cleared
    dc_pc,             \* detected_collisions: not called, or merged
    dc_from,           \* detected_collisions: from_dict
    dc_to,             \* detected_collisions: to_dict, updated after the call
    dc_before,         \* history: to_dict as it was passed
    dc_found,          \* detected_collisions: the list returned, as a bag
    http_error_map,    \* call_with_retries: http_error_map, its items in order
    retry_after,       \* call_with_retries: the retry-after header of the failed attempt
    rt_raised,         \* call_with_retries: the exception that left the call, and its cause
    calls,             \* history: how often operation() was called (up to MaxShown + 1)
    retries,           \* history: how many failures were retried (up to MaxShown)
    giving_up,         \* history: how many 'Giving up' warnings were written
    lp_pc,             \* load_plugins called by a caller of its own: where the call is
    lp_passed,         \* the mapping the caller passed, as it was
    lp_namespace,      \* the mapping the caller passed, as it is now
    lp_classes         \* what load_plugins returned

loader_vars == <<initialized, meta_path, sys_path, pkg_path, sys_modules, execs,
                 zip_cache, ns_ie, ns_pp, all_classes, FOUND, OVERRIDDEN,
                 ie_plugins, pp_plugins, installed, site_dirs, last_op, prev_op, was_reset, collected, lost, snaps>>
retry_vars == <<rt_pc, max_duration_s, sleep_duration_s, attempt_count, elapsed, errorcode>>
finder_vars == <<fd_pc, fd_fullname, fd_locations>>
patch_vars == <<host_attrs, fn_globals, mock_saved, pfg_patch, pfg_user, warned, blocks,
                pt_last, br_call>>
estimate_vars == <<ef_pc, formats, duration, ef_before>>
header_vars == <<dh_log, dh_result>>
lookup_vars == <<fd_spec, zip_reads>>
collide_vars == <<dc_pc, dc_from, dc_to, dc_before, dc_found>>
outcome_vars == <<http_error_map, retry_after, rt_raised, calls, retries, giving_up>>
caller_vars == <<lp_pc, lp_passed, lp_namespace, lp_classes>>
vars == <<initialized, meta_path, sys_path, pkg_path, sys_modules, execs,
          zip_cache, ns_ie, ns_pp, all_classes, FOUND, OVERRIDDEN,
          ie_plugins, pp_plugins, installed, site_dirs, last_op, prev_op, was_reset, collected, lost, snaps,
          rt_pc, max_duration_s, sleep_duration_s, attempt_count, elapsed, errorcode,
          fd_pc, fd_fullname, fd_locations,
          host_attrs, fn_globals, mock_saved, pfg_patch, pfg_user, warned, blocks,
          pt_last, br_call, ef_pc, formats, duration, ef_before,
          dh_log, dh_result,
          fd_spec, zip_reads,
          dc_pc, dc_from, dc_to, dc_before, dc_found,
          http_error_map, retry_after, rt_raised, calls, retries, giving_up,
          lp_pc, lp_passed, lp_namespace, lp_classes>>

(***************************************************************************)
(* Bounds                                                                  *)
(***************************************************************************)
MaxAdds == 2      \* add_plugins() calls in one behaviour
MaxPath == 2      \* entries of sys.path
MaxElapsed == 2   \* an attempt of the retried operation takes 0..MaxElapsed time steps
MaxShown == 3     \* attempt_count is counted up to MaxShown, and stays there
MaxDepth == 2     \* patch blocks open at once
MaxFrames == 2    \* frames of the call stack that bug_reports_message walks
MaxFormats == 2   \* items of the formats list of estimate_filesize
MaxReads == 2     \* the reads of an archive are counted up to MaxReads

(***************************************************************************)
(* Strings and paths                                                       *)
(***************************************************************************)
startswith(s, p) == Len(p) <= Len(s) /\ SubSeq(s, 1, Len(p)) = p

endswith(s, p) == Len(p) <= Len(s) /\ SubSeq(s, Len(s) - Len(p) + 1, Len(s)) = p

\* str.split("."): the dotted name without its dots
split(fullname) == SelectSeq(fullname, LAMBDA t : t # ".")

\* Path.parents: every proper ancestor of a path
parents(file) == { SubSeq(file, 1, i) : i \in 0..(Len(file) - 1) }

PACKAGE_NAME == <<"ytdlp_plugins">>

\* f"{PACKAGE_NAME}.{subpackage}"
FullName(subpackage) == PACKAGE_NAME \o <<".", subpackage>>

\* f"{fullname}.{simple}": iter_modules' prefix put before a module's simple name
ModuleName(subpackage, simple) == FullName(subpackage) \o <<".">> \o simple

\* PluginFinder.partition: the dotted ancestors of a name, the name included
partition(name) ==
    { SubSeq(name, 1, i) : i \in { j \in 1..Len(name) : j = Len(name) \/ name[j + 1] = "." } }

\* PluginFinder.packages as initialize() constructs it
Packages == partition(FullName("extractor")) \cup partition(FullName("postprocessor"))

(***************************************************************************)
(* The files: one plugin directory on the search path ("site", which holds *)
(* the package ytdlp_plugins with its extractor and postprocessor          *)
(* directories) and one archive, plugins.zip.  A module file is described  *)
(* by what its code does when executed: the classes it defines, the names  *)
(* it imports, its __all__.                                                *)
(***************************************************************************)
SITE == "site"
ZIP == "plugins.zip"

\* other entries sys.path may hold: a directory without the package, the
\* name of an archive that does not exist, a file that is no zip archive
LIB == "lib"
MISSING_ZIP == "missing.zip"
CORRUPT_ZIP == "corrupt.zip"

\* the plugin directory, written with a trailing separator
SITE_SLASH == "site/"

\* pathlib.Path(entry): a trailing separator is dropped
Path(entry) == IF entry = SITE_SLASH THEN SITE ELSE entry

IE == "IE"
PP == "PP"

HostModule(simple) == <<"yt_dlp", ".", "extractor", ".", simple>>
HostPPModule(simple) == <<"yt_dlp", ".", "postprocessor", ".", simple>>

\* an import statement: the attribute it binds, the class it names, the
\* module it is taken from (a host module, or a plugin module of the namespace)
FromHost(attr, name, simple) == [attr |-> attr, name |-> name, host |-> TRUE, from |-> HostModule(simple)]
FromPlugin(attr, name, sub, simple) == [attr |-> attr, name |-> name, host |-> FALSE, from |-> ModuleName(sub, simple)]

NoExports == [declared |-> FALSE, names |-> {}]
Exports(names) == [declared |-> TRUE, names |-> names]

\* test/test_plugins.py:61, a module file whose name begins with an underscore
_ignore ==
    [simple |-> <<"_", "ignore">>, defs |-> {<<"Ignored", IE>>}, imports |-> <<>>, all |-> NoExports]

\* extractor/auf1.py: JSHLEX is a class whose name lacks the suffix
auf1 ==
    [simple |-> <<"auf1">>, defs |-> {<<"JSHLEX">>, <<"Auf1", IE>>}, imports |-> <<>>, all |-> NoExports]

\* extractor/example.py: __all__ leaves out PrivatePluginIE and DummyPluginIE
example ==
    [simple |-> <<"example">>,
     defs |-> {<<"Private", IE>>, <<"Dummy", IE>>, <<"Example", IE>>},
     imports |-> <<>>,
     all |-> Exports({<<"Example", IE>>})]

\* extractor/override.py: collides with the host's BitChuteIE and with example's DummyPluginIE
override ==
    [simple |-> <<"override">>,
     defs |-> {<<"BitChute", IE>>, <<"Dummy", IE>>},
     imports |-> << FromHost(<<"_", "BitChute", IE>>, <<"BitChute", IE>>, "bitchute"),
                    FromPlugin(<<"_", "Dummy", IE>>, <<"Dummy", IE>>, "extractor", <<"example">>) >>,
     all |-> NoExports]

\* a module that imports a class from the sibling whose name extends its own,
\* as extractor/example.py would from extractor/exampleB.py
tube ==
    [simple |-> <<"tube">>,
     defs |-> {<<"Tube", IE>>},
     imports |-> << FromPlugin(<<"Live", IE>>, <<"Live", IE>>, "extractor", <<"tube", "Live">>) >>,
     all |-> NoExports]

tubeLive ==
    [simple |-> <<"tube", "Live">>, defs |-> {<<"Live", IE>>}, imports |-> <<>>, all |-> NoExports]

\* the postprocessor directory's module (test/test_plugins.py:65-67)
examplePP ==
    [simple |-> <<"example">>, defs |-> {<<"Example", PP>>, <<"Sponsor", PP>>},
     imports |-> <<>>, all |-> NoExports]

\* test/test_plugins.py:69-90, the archive's modules
foo == [simple |-> <<"foo">>, defs |-> {<<"Foo", IE>>}, imports |-> <<>>, all |-> NoExports]
bar == [simple |-> <<"bar">>, defs |-> {<<"Bar", PP>>}, imports |-> <<>>, all |-> NoExports]

\* the extractor directory's candidate files, in the order of their file names
SiteExtractorFiles == << _ignore, auf1, example, override, tube, tubeLive >>

SiteSimples == { SiteExtractorFiles[i].simple : i \in DOMAIN SiteExtractorFiles }

\* the sets of files the extractor directory may hold: none, one plain
\* module, the test's example beside _ignore, the colliding pair, a module
\* whose import fails between two modules that load, the importing pair,
\* the importing module alone, and all of them
InstalledSets ==
    { {}, {auf1.simple}, {_ignore.simple, example.simple}, {example.simple, override.simple},
      {auf1.simple, override.simple, tubeLive.simple}, {tube.simple, tubeLive.simple},
      {tube.simple}, SiteSimples }

\* the directories the plugin directory may hold below the package: both
\* subpackages, or no extractor directory at all
SiteLayouts == { {"extractor", "postprocessor"}, {"postprocessor"} }

\* a location is a path: the search-path entry, then the package's directories
Location(entry, subpackage) == <<entry>> \o split(FullName(subpackage))

\* the module files of one location, sorted by file name
FilesAt(loc, inst) ==
    IF loc = Location(SITE, "extractor")
      THEN SelectSeq(SiteExtractorFiles, LAMBDA f : f.simple \in inst)
    ELSE IF loc = Location(SITE, "postprocessor") THEN << examplePP >>
    ELSE IF loc = Location(ZIP, "extractor") THEN << foo >>
    ELSE IF loc = Location(ZIP, "postprocessor") THEN << bar >>
    ELSE << >>

\* Path.is_dir() of a path below a search-path entry
is_dir(path) ==
    /\ path[1] = SITE
    /\ \/ Tail(path) = split(PACKAGE_NAME)
       \/ \E sub \in site_dirs : Tail(path) = split(FullName(sub))

\* Path.is_file() and Path.suffix of a search-path entry
is_file(entry) == entry \in {ZIP, CORRUPT_ZIP}
path_suffix(entry) == IF entry \in {ZIP, MISSING_ZIP, CORRUPT_ZIP} THEN ".zip" ELSE ""

\* ZipFile(archive) opens the file: it raises BadZipFile when the file is no
\* zip archive
is_zipfile(archive) == archive # CORRUPT_ZIP

\* ZipFile(archive).namelist(), each name as a path
namelist(archive) ==
    IF archive = ZIP
      THEN { split(FullName("extractor")) \o <<"foo.py">>,
             split(FullName("postprocessor")) \o <<"bar.py">>,
             PACKAGE_NAME \o <<"__init__.py">> }
      ELSE {}

\* every module name of the model
AllModuleNames ==
    { ModuleName("extractor", s) : s \in SiteSimples }
    \cup { ModuleName("postprocessor", examplePP.simple),
           ModuleName("extractor", foo.simple), ModuleName("postprocessor", bar.simple) }

(***************************************************************************)
(* The host: yt_dlp's built-in classes                                     *)
(***************************************************************************)
HostClass(name, mod) == [name |-> name, mod |-> mod, ex |-> 0]

HostBitChuteIE == HostClass(<<"BitChute", IE>>, HostModule("bitchute"))
HostTubeIE == HostClass(<<"Tube", IE>>, HostModule("tube"))
HostGenericIE == HostClass(<<"Generic", IE>>, HostModule("generic"))
HostSponsorPP == HostClass(<<"Sponsor", PP>>, HostPPModule("sponsorblock"))

\* the ordered extractor lists the host may start with: one class per name,
\* the catch-all generic extractor last
HostLists == { << HostBitChuteIE, HostGenericIE >>, << HostBitChuteIE, HostTubeIE, HostGenericIE >> }

\* a namespace that binds every class of a list by its name
NamespaceOf(classes) ==
    [ n \in { classes[i].name : i \in DOMAIN classes } |->
        (CHOOSE c \in { classes[i] : i \in DOMAIN classes } : c.name = n) ]

(***************************************************************************)
(* Dictionaries.  A dict whose order is used (the mapping load_plugins     *)
(* returns) is the sequence of its items [key, cls] in insertion order;    *)
(* the namespaces, whose order is never used, are functions.               *)
(***************************************************************************)
Keys(d) == { d[i].key : i \in DOMAIN d }

Values(d) == [ i \in DOMAIN d |-> d[i].cls ]

Get(d, k) == d[CHOOSE i \in DOMAIN d : d[i].key = k].cls

Map(d) == [ k \in Keys(d) |-> Get(d, k) ]

\* dict.update on an ordered dict: a known key keeps its place, a new key is appended
RECURSIVE update(_, _)
update(d, other) ==
    IF other = << >> THEN d
    ELSE LET item == Head(other)
             d1 == IF item.key \in Keys(d)
                     THEN [ i \in DOMAIN d |-> IF d[i].key = item.key THEN item ELSE d[i] ]
                     ELSE Append(d, item)
         IN update(d1, Tail(other))

\* dict.update on a namespace
MergeKeep(ns, m) == [ k \in (DOMAIN ns) \cup (DOMAIN m) |-> IF k \in DOMAIN ns THEN ns[k] ELSE m[k] ]
Merge(ns, m) == [ k \in (DOMAIN ns) \cup (DOMAIN m) |-> IF k \in DOMAIN m THEN m[k] ELSE ns[k] ]

(***************************************************************************)
(* PluginFinder                                                            *)
(***************************************************************************)
\* dict.fromkeys(sys.path).keys(): the search path without repeated entries
RECURSIVE fromkeys(_)
fromkeys(path) ==
    IF path = << >> THEN << >>
    ELSE LET front == fromkeys(SubSeq(path, 1, Len(path) - 1))
             last == path[Len(path)]
         IN IF \E i \in DOMAIN front : front[i] = last THEN front ELSE Append(front, last)

\* PluginFinder.zip_has_dir, the cache being filled by the caller
zip_has_dir(archive, path) == \E file \in namelist(archive) : path \in parents(file)

\* zip_has_dir that forgets what it has read
cached_never(cache, archive) == cache

\* "self._zip_content_cache[archive] = ...": the cache (its keys) with the
\* archive that was read
cached(cache, archive) == cache \cup {archive}

\* PluginFinder.search_locations: the locations and the archive cache it
\* leaves, and the archives it has read (those it did not find in the
\* cache); raised: an exception other than the suppressed FileNotFoundError
\* left zip_has_dir, which reads an archive that is not in the cache
RECURSIVE search_entries(_, _, _)
search_entries(entries, parts, cache) ==
    IF entries = << >> THEN [locations |-> << >>, cache |-> cache, raised |-> FALSE, reads |-> {}]
    ELSE LET path == Path(Head(entries))
             candidate == <<path>> \o parts
         IN IF is_dir(candidate)
              THEN LET rest == search_entries(Tail(entries), parts, cache)
                   IN [locations |-> <<candidate>> \o rest.locations, cache |-> rest.cache,
                       raised |-> rest.raised, reads |-> rest.reads]
            ELSE IF is_file(path) /\ path_suffix(path) \in {".zip", ".egg", ".whl"}
              THEN IF path \notin cache /\ ~is_zipfile(path)
                     THEN [locations |-> << >>, cache |-> cache, raised |-> TRUE, reads |-> {}]
                     ELSE LET rest == search_entries(Tail(entries), parts, cached(cache, path))
                              reads == IF path \in cache THEN rest.reads ELSE rest.reads \cup {path}
                          IN IF zip_has_dir(path, parts)
                               THEN [locations |-> <<candidate>> \o rest.locations,
                                     cache |-> rest.cache, raised |-> rest.raised, reads |-> reads]
                               ELSE [locations |-> rest.locations,
                                     cache |-> rest.cache, raised |-> rest.raised, reads |-> reads]
            ELSE search_entries(Tail(entries), parts, cache)

search_locations(fullname, path, cache) == search_entries(fromkeys(path), split(fullname), cache)

\* a namespace package of sys.modules
Absent == [in |-> FALSE, path |-> << >>]
Imported(locations) == [in |-> TRUE, path |-> locations]

\* PluginFinder.find_spec and the module made from its spec: the package
\* entry (Absent when the finder declines) and the archive cache
spec_from_loader(found) ==
    IF found.locations = << >>
      THEN [pkg |-> Absent, cache |-> found.cache]
      ELSE [pkg |-> Imported(found.locations), cache |-> found.cache]

\* PluginFinder.find_spec.  Where the loader runs, sys.path holds the plugin
\* directory and the sound archive only: search_locations does not raise there
find_spec(fullname, path, cache) ==
    IF fullname \notin Packages THEN [pkg |-> Absent, cache |-> cache]
    ELSE spec_from_loader(search_locations(fullname, path, cache))

\* PluginFinder.invalidate_caches on the packages of sys.modules
invalidate_caches_keep(pkgs) == pkgs
invalidate_caches(pkgs) == [ p \in DOMAIN pkgs |-> IF p \in Packages THEN Absent ELSE pkgs[p] ]

\* importlib.import_module of a package name without the finder: the import
\* system looks for the directory below the parent package's __path__
std_find(fullname, pkgs) ==
    IF Len(fullname) = 1 THEN Absent
    ELSE LET parent == SubSeq(fullname, 1, Len(fullname) - 2)
             dirs == SelectSeq([ i \in DOMAIN pkgs[parent].path |->
                                   Append(pkgs[parent].path[i], fullname[Len(fullname)]) ],
                               is_dir)
         IN IF pkgs[parent].in /\ dirs # << >> THEN Imported(dirs) ELSE Absent

\* the import system asks the finders of sys.meta_path in turn: PluginFinder
\* first, where it is installed, then the standard path finder
find_on_meta_path(fullname, pkgs, cache, path, finders) ==
    IF finders # << >> /\ find_spec(fullname, path, cache).pkg.in
      THEN find_spec(fullname, path, cache)
      ELSE [pkg |-> std_find(fullname, pkgs),
            cache |-> IF finders # << >> THEN find_spec(fullname, path, cache).cache ELSE cache]

\* sys.modules[fullname] is set when a finder found the package
load_package(up, fullname, spec) ==
    [pkgs |-> [up.pkgs EXCEPT ![fullname] = spec.pkg], cache |-> spec.cache, found |-> spec.pkg.in]

\* the import of a package whose parents are imported (up)
import_child(up, fullname, path, finders) ==
    IF ~up.found THEN up
    ELSE IF up.pkgs[fullname].in THEN up
    ELSE load_package(up, fullname, find_on_meta_path(fullname, up.pkgs, up.cache, path, finders))

\* importlib.import_module(fullname) of a package and of its parents first
RECURSIVE import_package(_, _, _, _, _)
import_package(fullname, pkgs, cache, path, finders) ==
    import_child(IF Len(fullname) = 1
                   THEN [pkgs |-> pkgs, cache |-> cache, found |-> TRUE]
                   ELSE import_package(SubSeq(fullname, 1, Len(fullname) - 2),
                                       pkgs, cache, path, finders),
                 fullname, path, finders)

\* pkgutil.iter_modules(path=pkg.__path__, prefix=f"{fullname}."): the files
\* of each location in turn, a module name being yielded once
RECURSIVE iter_modules(_, _, _, _), yield_modules(_, _, _, _, _)

\* the modules of one location (files) are yielded, the other locations follow
yield_modules(files, locations, subpackage, inst, yielded) ==
    [ i \in DOMAIN files |->
        [finder |-> Head(locations),
         module_name |-> ModuleName(subpackage, files[i].simple),
         file |-> files[i]] ]
    \o iter_modules(Tail(locations), subpackage, inst,
                    yielded \cup { ModuleName(subpackage, files[i].simple) : i \in DOMAIN files })

iter_modules(locations, subpackage, inst, yielded) ==
    IF locations = << >> THEN << >>
    ELSE yield_modules(SelectSeq(FilesAt(Head(locations), inst),
                                 LAMBDA f : ModuleName(subpackage, f.simple) \notin yielded),
                       locations, subpackage, inst, yielded)

(***************************************************************************)
(* Executing a module's code.  st is the import state [mods, execs, pkgs]: *)
(* sys.modules' plugin modules, the executions counted, the packages.      *)
(***************************************************************************)
\* the attribute names of the model as sorted() orders them
SortedAttrs ==
    << <<"Auf1", IE>>, <<"Bar", PP>>, <<"BitChute", IE>>, <<"Dummy", IE>>, <<"Example", IE>>,
       <<"Example", PP>>, <<"Foo", IE>>, <<"Ignored", IE>>, <<"JSHLEX">>, <<"Live", IE>>, <<"Private", IE>>,
       <<"Sponsor", PP>>, <<"Tube", IE>>, <<"_", "BitChute", IE>>, <<"_", "Dummy", IE>> >>

\* the subpackage a module name belongs to
SubpackageOf(module_name) == module_name[3]

\* the file the import system finds for a module name, if any
FindFile(module_name, st, inst) ==
    SelectSeq(iter_modules(st.pkgs[FullName(SubpackageOf(module_name))].path,
                           SubpackageOf(module_name), inst, {}),
              LAMBDA item : item.module_name = module_name)

RECURSIVE exec_code(_, _, _, _), run_imports(_, _, _), import_module(_, _, _)

\* an executed module is cached in sys.modules
cache_module(run, module_name) ==
    IF run.ok
      THEN [ok |-> TRUE, ex |-> run.ex, st |-> [run.st EXCEPT !.mods[module_name] = run.ex]]
      ELSE [ok |-> FALSE, st |-> run.st, ex |-> 0]

\* the file found for a module is executed
import_file(found, module_name, st, inst) ==
    IF found = << >> THEN [ok |-> FALSE, st |-> st, ex |-> 0]
    ELSE cache_module(exec_code(found[1].file, module_name, st, inst), module_name)

\* the statement "import module_name" run by a module's code: the cached
\* module, or else the file is found, executed and cached
import_module(module_name, st, inst) ==
    IF st.mods[module_name] > 0 THEN [ok |-> TRUE, st |-> st, ex |-> st.mods[module_name]]
    ELSE import_file(FindFile(module_name, st, inst), module_name, st, inst)

\* "from module import name as attr" binds attr, the later imports follow
bind_import(imp, mod, rest) ==
    IF ~rest.ok THEN rest
    ELSE [ok |-> TRUE, st |-> rest.st,
          binds |-> Merge((imp.attr :> [name |-> imp.name, mod |-> imp.from, ex |-> mod.ex]),
                          rest.binds)]

import_from(imp, mod, more, inst) ==
    IF ~mod.ok THEN [ok |-> FALSE, st |-> mod.st, binds |-> << >>]
    ELSE bind_import(imp, mod, run_imports(more, mod.st, inst))

\* the import statements of a module, in order; binds: attribute -> class
run_imports(imports, st, inst) ==
    IF imports = << >> THEN [ok |-> TRUE, st |-> st, binds |-> << >>]
    ELSE import_from(Head(imports),
                     IF Head(imports).host THEN [ok |-> TRUE, st |-> st, ex |-> 0]
                     ELSE import_module(Head(imports).from, st, inst),
                     Tail(imports), inst)

\* the class statements of a module, run after its imports; ns is the
\* module's namespace (attribute -> class)
define_classes(imported, file, module_name, ex) ==
    IF imported.ok
      THEN [ok |-> TRUE, st |-> imported.st, ex |-> ex,
            ns |-> Merge(imported.binds,
                         [ n \in file.defs |-> [name |-> n, mod |-> module_name, ex |-> ex] ])]
      ELSE [ok |-> FALSE, st |-> imported.st, ex |-> ex, ns |-> << >>]

\* one execution of a module file's code: its imports, then its class statements
exec_code(file, module_name, st, inst) ==
    define_classes(run_imports(file.imports,
                               [st EXCEPT !.execs[module_name] = st.execs[module_name] + 1],
                               inst),
                   file, module_name, st.execs[module_name] + 1)

(***************************************************************************)
(* load_plugins                                                            *)
(***************************************************************************)
\* gen_predicate(package_name)'s check_predicate; every attribute of the
\* model is a class
check_predicate(obj, suffix, package_name) ==
    endswith(obj.name, <<suffix>>) /\ startswith(obj.mod, package_name)

\* dict(getmembers(module, predicate)): the members sorted by name
getmembers(ns, suffix, package_name) ==
    LET attrs == SelectSeq(SortedAttrs,
                           LAMBDA a : a \in DOMAIN ns /\ check_predicate(ns[a], suffix, package_name))
    IN [ i \in DOMAIN attrs |-> [key |-> attrs[i], cls |-> ns[attrs[i]]] ]

\* a list whose order is the iteration order of a set, as a bag
BagOf(keys, f) == [ c \in { f[k] : k \in keys } |-> Cardinality({ k \in keys : f[k] = c }) ]

\* detected_collisions that compares the names only
detected_collisions_all(from_dict, to_dict) ==
    BagOf((DOMAIN from_dict) \cap (DOMAIN to_dict), to_dict)

\* detected_collisions(from_dict, to_dict), both as functions
detected_collisions_new(from_dict, to_dict) ==
    LET collisions == (DOMAIN from_dict) \cap (DOMAIN to_dict)
    IN BagOf({ key \in collisions : from_dict[key] # to_dict[key] }, from_dict)
detected_collisions(from_dict, to_dict) ==
    LET collisions == (DOMAIN from_dict) \cap (DOMAIN to_dict)
    IN BagOf({ key \in collisions : from_dict[key] # to_dict[key] }, to_dict)

\* history: the classes whose binding an update of to_dict by from_dict replaces
Replaced(from_dict, to_dict) ==
    { to_dict[k] : k \in { key \in (DOMAIN from_dict) \cap (DOMAIN to_dict) : from_dict[key] # to_dict[key] } }

\* the modules of an imported package are walked
walk_package(imp, subpackage, st, inst) ==
    [st |-> [st EXCEPT !.pkgs = imp.pkgs, !.cache = imp.cache],
     walk |-> IF imp.found
                THEN iter_modules(imp.pkgs[FullName(subpackage)].path, subpackage, inst, {})
                ELSE << >>]

\* iter_plugin_modules(subpackage): the package is imported, its modules walked
iter_plugin_modules(subpackage, st, inst, path, finders) ==
    walk_package(import_package(FullName(subpackage), st.pkgs, st.cache, path, finders),
                 subpackage, st, inst)

\* the classes of an executed module are merged into the classes collected
merge_module(acc, item, run, module_classes) ==
    [st |-> [run.st EXCEPT !.mods[item.module_name] = run.ex],
     classes |-> update(acc.classes, module_classes),
     ov |-> acc.ov (+) detected_collisions(Map(module_classes), Map(acc.classes)),
     got |-> acc.got \o [ i \in DOMAIN module_classes |->
                            [module |-> item.module_name,
                             key |-> module_classes[i].key,
                             cls |-> module_classes[i].cls] ],
     lost |-> acc.lost \cup Replaced(Map(module_classes), Map(acc.classes))]

\* a module whose execution raised is skipped
collect_module_raised(acc, item, run, suffix) ==
    merge_module(acc, item, run, getmembers(run.ns, suffix, item.module_name))
collect_module(acc, item, run, suffix) ==
    IF ~run.ok THEN [acc EXCEPT !.st = run.st]
    ELSE merge_module(acc, item, run, getmembers(run.ns, suffix, item.module_name))

\* the body of load_plugins' loop for one module; acc is [st, classes, ov, got, lost]
load_module(acc, item, suffix, inst) ==
    collect_module(acc, item, exec_code(item.file, item.module_name, acc.st, inst), suffix)

RECURSIVE load_modules(_, _, _, _)
load_modules(acc, walk, suffix, inst) ==
    IF walk = << >> THEN acc
    ELSE load_modules(load_module(acc, Head(walk), suffix, inst), Tail(walk), suffix, inst)

\* the end of load_plugins: the collisions with the namespace, its update
update_namespace_replace(acc, namespace) ==
    [classes |-> acc.classes,
     namespace |-> Map(acc.classes),
     st |-> acc.st,
     ov |-> acc.ov (+) detected_collisions(Map(acc.classes), namespace),
     got |-> acc.got,
     lost |-> acc.lost \cup Replaced(Map(acc.classes), namespace)]
update_namespace(acc, namespace) ==
    [classes |-> acc.classes,
     namespace |-> Merge(namespace, Map(acc.classes)),
     st |-> acc.st,
     ov |-> acc.ov (+) detected_collisions(Map(acc.classes), namespace),
     got |-> acc.got,
     lost |-> acc.lost \cup Replaced(Map(acc.classes), namespace)]

\* load_plugins' loop over the modules walked
load_walk(mods, suffix, namespace, ov, lst, inst) ==
    update_namespace(load_modules([st |-> mods.st, classes |-> << >>, ov |-> ov,
                                   got |-> << >>, lost |-> lst],
                                  mods.walk, suffix, inst),
                     namespace)

\* load_plugins(name, suffix, namespace) on the import state st and the
\* OVERRIDDEN ov: the mapping returned, the namespace and the state left
load_plugins(name, suffix, namespace, st, ov, lst, inst, path, finders) ==
    load_walk(iter_plugin_modules(name, st, inst, path, finders),
              suffix, namespace, ov, lst, inst)

(***************************************************************************)
(* The loader's operations                                                 *)
(***************************************************************************)
\* "for cls in OVERRIDDEN: all_classes.remove(cls)": each entry of OVERRIDDEN
\* removes the first occurrence of its class that is left, if there is one
remove_none(classes, ov) == classes
RECURSIVE remove_overridden(_, _)
remove_overridden(classes, ov) ==
    IF classes = << >> THEN << >>
    ELSE IF BagIn(Head(classes), ov)
      THEN remove_overridden(Tail(classes), ov (-) SetToBag({Head(classes)}))
      ELSE <<Head(classes)>> \o remove_overridden(Tail(classes), ov)

\* history: a registry as the claims compare registries, by the classes'
\* names and modules (a later pass creates new class objects)
Named(c) == [name |-> c.name, mod |-> c.mod]
Registry(ie, pp, classes) ==
    [ns_ie |-> [ k \in DOMAIN ie |-> Named(ie[k]) ],
     ns_pp |-> [ k \in DOMAIN pp |-> Named(pp[k]) ],
     all_classes |-> [ i \in DOMAIN classes |-> Named(classes[i]) ]]

\* history: op is called
Called(op) == last_op' = op /\ prev_op' = last_op

\* initialize()
initialize_unguarded ==
    /\ meta_path' = <<"PluginFinder">> \o meta_path
    /\ initialized' = TRUE
    /\ Called("initialize")
    /\ UNCHANGED <<sys_path, pkg_path, sys_modules, execs, zip_cache, ns_ie, ns_pp,
                   all_classes, FOUND, OVERRIDDEN, ie_plugins, pp_plugins, installed, site_dirs,
                   was_reset, collected, lost, snaps>>
    /\ UNCHANGED retry_vars
    /\ UNCHANGED finder_vars
    /\ UNCHANGED patch_vars
    /\ UNCHANGED estimate_vars
    /\ UNCHANGED header_vars
    /\ UNCHANGED lookup_vars
    /\ UNCHANGED collide_vars
    /\ UNCHANGED outcome_vars
    /\ UNCHANGED caller_vars
initialize ==
    /\ IF ~initialized
         THEN /\ meta_path' = <<"PluginFinder">> \o meta_path
              /\ initialized' = TRUE
         ELSE UNCHANGED <<meta_path, initialized>>
    /\ Called("initialize")
    /\ UNCHANGED <<sys_path, pkg_path, sys_modules, execs, zip_cache, ns_ie, ns_pp,
                   all_classes, FOUND, OVERRIDDEN, ie_plugins, pp_plugins, installed, site_dirs,
                   was_reset, collected, lost, snaps>>
    /\ UNCHANGED retry_vars
    /\ UNCHANGED finder_vars
    /\ UNCHANGED patch_vars
    /\ UNCHANGED estimate_vars
    /\ UNCHANGED header_vars
    /\ UNCHANGED lookup_vars
    /\ UNCHANGED collide_vars
    /\ UNCHANGED outcome_vars
    /\ UNCHANGED caller_vars

\* reset() that also empties the host's ordered extractor list
reset_list == all_classes' = << >> /\ UNCHANGED <<initialized, meta_path, ns_ie, ns_pp>>

\* reset() assigns nothing of the host and does not touch _INITIALIZED or
\* sys.meta_path
reset_frame == UNCHANGED <<initialized, meta_path, ns_ie, ns_pp, all_classes>>

\* reset(); importlib.invalidate_caches() calls every installed finder's invalidate_caches
reset ==
    /\ FOUND' = << >>
    /\ OVERRIDDEN' = EmptyBag
    /\ reset_frame
    /\ IF meta_path # << >>
         THEN /\ zip_cache' = {}
              /\ pkg_path' = invalidate_caches(pkg_path)
         ELSE UNCHANGED <<zip_cache, pkg_path>>
    /\ lost' = {}
    /\ Called("reset")
    /\ was_reset' = TRUE
    /\ UNCHANGED <<sys_path, sys_modules, execs, ie_plugins, pp_plugins, installed,
                   site_dirs, collected, snaps>>
    /\ UNCHANGED retry_vars
    /\ UNCHANGED finder_vars
    /\ UNCHANGED patch_vars
    /\ UNCHANGED estimate_vars
    /\ UNCHANGED header_vars
    /\ UNCHANGED lookup_vars
    /\ UNCHANGED collide_vars
    /\ UNCHANGED outcome_vars
    /\ UNCHANGED caller_vars

\* the end of add_plugins(): ie and pp are what load_plugins returned,
\* classes is the ordered extractor list after the plugins went first
register(ie, pp, classes) ==
    /\ ie_plugins' = ie.classes
    /\ ns_ie' = ie.namespace
    /\ all_classes' = classes
    /\ pp_plugins' = pp.classes
    /\ ns_pp' = pp.namespace
    /\ FOUND' = Merge(Merge(FOUND, Map(ie.classes)), Map(pp.classes))
    /\ OVERRIDDEN' = pp.ov
    /\ sys_modules' = pp.st.mods
    /\ execs' = pp.st.execs
    /\ pkg_path' = pp.st.pkgs
    /\ zip_cache' = pp.st.cache
    /\ collected' = ie.got \o pp.got
    /\ lost' = pp.lost
    /\ snaps' = Append(snaps,
          [registry |-> Registry(ie.namespace, pp.namespace, classes),
           overridden |-> BagCardinality(pp.ov),
           after_reset |-> was_reset,
           execs |-> pp.st.execs,
           sys_path |-> sys_path,
           meta_path |-> meta_path])

\* add_plugins() with the plugins appended to the ordered list
add_extractors_append(ie) ==
    register(ie,
             load_plugins("postprocessor", PP, ns_pp, ie.st, ie.ov, ie.lost,
                          installed, sys_path, meta_path),
             remove_overridden(all_classes, ie.ov) \o Values(ie.classes))

\* add_plugins() once the extractors are loaded: the overridden classes
\* leave the ordered list, the plugins go first, the postprocessors are loaded
add_extractors(ie) ==
    register(ie,
             load_plugins("postprocessor", PP, ns_pp, ie.st, ie.ov, ie.lost,
                          installed, sys_path, meta_path),
             Values(ie.classes) \o remove_overridden(all_classes, ie.ov))

\* add_plugins()
add_plugins ==
    /\ Len(snaps) < MaxAdds
    /\ add_extractors(load_plugins("extractor", IE, ns_ie,
                                   [mods |-> sys_modules, execs |-> execs,
                                    pkgs |-> pkg_path, cache |-> zip_cache],
                                   OVERRIDDEN, lost, installed, sys_path, meta_path))
    /\ Called("add_plugins")
    /\ was_reset' = FALSE
    /\ UNCHANGED <<initialized, meta_path, sys_path, installed, site_dirs>>
    /\ UNCHANGED retry_vars
    /\ UNCHANGED finder_vars
    /\ UNCHANGED patch_vars
    /\ UNCHANGED estimate_vars
    /\ UNCHANGED header_vars
    /\ UNCHANGED lookup_vars
    /\ UNCHANGED collide_vars
    /\ UNCHANGED outcome_vars
    /\ UNCHANGED caller_vars

\* sys.path.append(str(zipmodule_path)) (test/test_plugins.py:81)
append_archive ==
    /\ Len(sys_path) < MaxPath
    /\ sys_path' = Append(sys_path, ZIP)
    /\ Called("append_archive")
    /\ UNCHANGED <<initialized, meta_path, pkg_path, sys_modules, execs, zip_cache, ns_ie,
                   ns_pp, all_classes, FOUND, OVERRIDDEN, ie_plugins, pp_plugins, installed, site_dirs,
                   was_reset, collected, lost, snaps>>
    /\ UNCHANGED retry_vars
    /\ UNCHANGED finder_vars
    /\ UNCHANGED patch_vars
    /\ UNCHANGED estimate_vars
    /\ UNCHANGED header_vars
    /\ UNCHANGED lookup_vars
    /\ UNCHANGED collide_vars
    /\ UNCHANGED outcome_vars
    /\ UNCHANGED caller_vars

\* the state after "import ytdlp_plugins": the package itself is imported,
\* nothing is discovered yet
LoaderStart ==
    /\ initialized = FALSE
    /\ meta_path = << >>
    /\ pkg_path = [ p \in Packages |->
                      IF p = PACKAGE_NAME THEN Imported(<< <<SITE>> \o PACKAGE_NAME >>) ELSE Absent ]
    /\ sys_modules = [ m \in AllModuleNames |-> 0 ]
    /\ execs = [ m \in AllModuleNames |-> 0 ]
    /\ zip_cache = {}
    /\ all_classes \in HostLists
    /\ ns_ie = NamespaceOf(all_classes)
    /\ ns_pp = NamespaceOf(<<HostSponsorPP>>)
    /\ FOUND = << >>
    /\ OVERRIDDEN = EmptyBag
    /\ ie_plugins = << >>
    /\ pp_plugins = << >>
    /\ installed \in InstalledSets
    /\ site_dirs \in SiteLayouts
    /\ "extractor" \notin site_dirs => installed = {}
    /\ last_op = "import"
    /\ prev_op = "import"
    /\ was_reset = FALSE
    /\ collected = << >>
    /\ lost = {}
    /\ snaps = << >>

\* sys.path holds the plugin directory
LoaderInit ==
    /\ sys_path = <<SITE>>
    /\ LoaderStart

\* the objects the patches exchange: the host's own function of a name, and
\* the function of this package that replaces it
Original(name) == [owner |-> "yt_dlp", name |-> name]
Replacement(name) == [owner |-> "ytdlp_plugins", name |-> name]

\* a patcher that is not entered has no attribute temp_original
Unset == [owner |-> "", name |-> "unset"]

\* self.name of a patch_function_globals whose name is not a global
NoName == "None"

\* the attributes of the host that _PATCHES[0] and _PATCHES[1] replace
MockTargets == {"bug_reports_message", "print_debug_header"}

\* the state after "import ytdlp_plugins.patching": the host is unpatched,
\* _PATCHES is built, no patch is entered, nothing was called
PatchIdle ==
    /\ host_attrs = [ a \in MockTargets |-> Original(a) ]
    /\ fn_globals = [ g \in {"write_json_file", "windows_enable_vt_mode"} |-> Original(g) ]
    /\ mock_saved = [ a \in MockTargets |-> Unset ]
    /\ pfg_patch = [name |-> "write_json_file", obj |-> Replacement("write_json_file")]
    /\ pfg_user = [made |-> FALSE, asked |-> NoName, name |-> NoName, obj |-> Unset, depth |-> 0]
    /\ warned = << >>
    /\ blocks = << >>
    /\ pt_last = [op |-> "none", before |-> [host |-> host_attrs, globals |-> fn_globals],
                  by_exception |-> FALSE, raised |-> FALSE]
    /\ br_call = [called |-> FALSE, stack |-> << >>, result |-> << >>]

\* the values of a format's keys and of the duration: None, or a number
None == [t |-> "None", v |-> 0]
Number(n) == [t |-> "int", v |-> n]

\* find_spec returning None
NoSpec == [name |-> << >>, loader |-> "None", is_package |-> FALSE,
           submodule_search_locations |-> << >>]

\* find_spec is not being called, no archive was read
LookupIdle ==
    /\ fd_spec = [called |-> FALSE, returned |-> NoSpec]
    /\ zip_reads = [ a \in {ZIP, MISSING_ZIP, CORRUPT_ZIP} |-> 0 ]

\* detected_collisions is not being called
CollideIdle ==
    /\ dc_pc = "idle"
    /\ dc_from = << >>
    /\ dc_to = << >>
    /\ dc_before = << >>
    /\ dc_found = EmptyBag

\* no exception has left call_with_retries
NotRaised == [what |-> "none", cause |-> "none"]

\* call_with_retries was not called
OutcomeIdle ==
    /\ http_error_map = << >>
    /\ retry_after = -1
    /\ rt_raised = NotRaised
    /\ calls = 0
    /\ retries = 0
    /\ giving_up = 0

\* load_plugins was not called with a mapping of the caller's
CallerIdle ==
    /\ lp_pc = "idle"
    /\ lp_passed = << >>
    /\ lp_namespace = << >>
    /\ lp_classes = << >>

\* plugin_debug_header was not called
HeaderIdle ==
    /\ dh_log = << >>
    /\ dh_result = "none"

\* estimate_filesize is not being called
EstimateIdle ==
    /\ ef_pc = "idle"
    /\ formats = << >>
    /\ duration = None
    /\ ef_before = << >>

\* PluginFinder.search_locations is not being called
FinderIdle ==
    /\ fd_pc = "idle"
    /\ fd_fullname = << >>
    /\ fd_locations = << >>

RetryIdle ==
    /\ rt_pc = "idle"
    /\ max_duration_s = 0
    /\ sleep_duration_s = 0
    /\ attempt_count = 0
    /\ elapsed = 0
    /\ errorcode = 0

Init == LoaderInit /\ RetryIdle /\ FinderIdle /\ PatchIdle /\ CallerIdle /\ OutcomeIdle /\ CollideIdle /\ LookupIdle /\ HeaderIdle /\ EstimateIdle

Next == initialize \/ reset \/ add_plugins \/ append_archive

Spec == Init /\ [][Next]_vars

(***************************************************************************)
(* Auf1IE.call_with_retries.  Times are whole seconds.  One attempt of the *)
(* operation either returns or raises ExtractorError after some time; the  *)
(* error may carry an HTTP status and a retry-after header.                *)
(***************************************************************************)
MAX_DURATION_S == 30
SLEEP_DURATION_S == 5

\* the time.time() - start an attempt can take, 0 for one that fails at once
Elapsed == { 10 * k : k \in 0..MaxElapsed }

\* exc.cause.code of the failure; NoCode when exc.cause is no HTTPError
NoCode == 0
ErrorCodes == {NoCode, 404, 429, 500}

\* exc.cause.headers.get("retry-after"), NoHeader when it is not sent
NoHeader == -1
RetryAfter == {NoHeader, 0, 5, 60}

\* attempt_count += 1; the count is used for the warning's text only and is
\* kept up to MaxShown
count(n) == IF n < MaxShown THEN n + 1 ELSE MaxShown

\* an item of http_error_map: its key, an int or a collection of ints, and
\* the exception it maps to
IntKey(code, exception) == [is_int |-> TRUE, code |-> code, codes |-> {}, exception |-> exception]
SetKey(codes, exception) == [is_int |-> FALSE, code |-> 0, codes |-> codes, exception |-> exception]

\* the maps a caller passes: none, the one of Auf1IE._metadata, one with a
\* collection for its key, one with two items for the same status
ErrorMaps ==
    { << >>,
      << IntKey(500, "UnsupportedError") >>,
      << SetKey({403, 500}, "UnsupportedError") >>,
      << SetKey({403, 500}, "GeoRestrictedError"), IntKey(500, "UnsupportedError") >> }

\* call_with_retries is entered: its locals are set
rt_call ==
    /\ rt_pc = "idle"
    /\ rt_pc' = "attempt"
    /\ http_error_map' \in ErrorMaps
    /\ max_duration_s' = MAX_DURATION_S
    /\ sleep_duration_s' = SLEEP_DURATION_S
    /\ attempt_count' = 0
    /\ UNCHANGED <<elapsed, errorcode>>
    /\ UNCHANGED <<retry_after, rt_raised, calls, retries, giving_up>>
    /\ UNCHANGED loader_vars
    /\ UNCHANGED finder_vars
    /\ UNCHANGED patch_vars
    /\ UNCHANGED estimate_vars
    /\ UNCHANGED header_vars
    /\ UNCHANGED lookup_vars
    /\ UNCHANGED collide_vars
    /\ UNCHANGED caller_vars

\* history: one more call of operation()
called(n) == IF n <= MaxShown THEN n + 1 ELSE n

\* "return operation()"
rt_return ==
    /\ rt_pc = "attempt"
    /\ rt_pc' = "returned"
    /\ calls' = called(calls)
    /\ UNCHANGED <<max_duration_s, sleep_duration_s, attempt_count, elapsed, errorcode>>
    /\ UNCHANGED <<http_error_map, retry_after, rt_raised, retries, giving_up>>
    /\ UNCHANGED loader_vars
    /\ UNCHANGED finder_vars
    /\ UNCHANGED patch_vars
    /\ UNCHANGED estimate_vars
    /\ UNCHANGED header_vars
    /\ UNCHANGED lookup_vars
    /\ UNCHANGED collide_vars
    /\ UNCHANGED caller_vars

\* the budget left after a failed attempt that is retried
spend(budget, took) == budget - took

\* an int key is taken for a collection as it is: it holds nothing
errors_of_collection(item) == item.codes

\* "if isinstance(errors, int): errors = {errors}"
errors_of(item) == IF item.is_int THEN {item.code} ELSE item.codes

\* "errorcode in errors": the failure's errorcode is None when it has no status
matches(item, code) == code # NoCode /\ code \in errors_of(item)

\* the loop over http_error_map.items() and the "raise" after it: the
\* exception of the first item that holds the errorcode is raised from the
\* error, the error itself when there is none
RECURSIVE mapped(_, _)
mapped(items, code) ==
    IF items = << >> THEN [what |-> "original", cause |-> "none"]
    ELSE IF matches(Head(items), code) THEN [what |-> Head(items).exception, cause |-> "original"]
    ELSE mapped(Tail(items), code)

\* exc.cause.headers.get("retry-after", sleep_duration_s)
sleep_for(header, sleep) == IF header # NoHeader THEN header ELSE sleep

\* every failure is taken for one that can be retried
any_status(code) == TRUE

\* "elif errorcode == 429"
too_many_requests(code) == code = 429

\* the rest of the except block, once attempt_count, errorcode and
\* sleep_duration_s are set
handle(code, took) ==
    IF max_duration_s < 0
      THEN /\ rt_pc' = "raised"
           /\ giving_up' = giving_up + 1
           /\ rt_raised' = mapped(http_error_map, code)
           /\ UNCHANGED <<max_duration_s, retries>>
    ELSE IF too_many_requests(code)
      THEN /\ max_duration_s' = spend(max_duration_s, took)
           /\ rt_pc' = "sleep"
           /\ retries' = count(retries)
           /\ UNCHANGED <<giving_up, rt_raised>>
    ELSE /\ rt_pc' = "raised"
         /\ rt_raised' = mapped(http_error_map, code)
         /\ UNCHANGED <<max_duration_s, retries, giving_up>>

\* operation() raises ExtractorError: the except block
rt_except ==
    /\ rt_pc = "attempt"
    /\ \E took \in Elapsed, code \in ErrorCodes, header \in RetryAfter :
          /\ code = NoCode => header = NoHeader
          /\ calls' = called(calls)
          /\ attempt_count' = count(attempt_count)
          /\ errorcode' = code
          /\ elapsed' = took
          /\ retry_after' = header
          /\ sleep_duration_s' = sleep_for(header, sleep_duration_s)
          /\ handle(code, took)
    /\ UNCHANGED http_error_map
    /\ UNCHANGED loader_vars
    /\ UNCHANGED finder_vars
    /\ UNCHANGED patch_vars
    /\ UNCHANGED estimate_vars
    /\ UNCHANGED header_vars
    /\ UNCHANGED lookup_vars
    /\ UNCHANGED collide_vars
    /\ UNCHANGED caller_vars

\* time.sleep(sleep_duration_s); continue
rt_sleep ==
    /\ rt_pc = "sleep"
    /\ rt_pc' = "attempt"
    /\ UNCHANGED <<max_duration_s, sleep_duration_s, attempt_count, elapsed, errorcode>>
    /\ UNCHANGED loader_vars
    /\ UNCHANGED finder_vars
    /\ UNCHANGED patch_vars
    /\ UNCHANGED estimate_vars
    /\ UNCHANGED header_vars
    /\ UNCHANGED lookup_vars
    /\ UNCHANGED collide_vars
    /\ UNCHANGED outcome_vars
    /\ UNCHANGED caller_vars

RetryInit ==
    LoaderInit /\ installed = {} /\ site_dirs = {"extractor", "postprocessor"}
        /\ Len(all_classes) = 2 /\ RetryIdle /\ FinderIdle /\ PatchIdle /\ CallerIdle /\ OutcomeIdle /\ CollideIdle /\ LookupIdle /\ HeaderIdle /\ EstimateIdle

RetryNext == rt_call \/ rt_return \/ rt_except \/ rt_sleep

\* the calling thread runs the loop: a step that can be taken is taken
SpecRetry == RetryInit /\ [][RetryNext]_vars /\ WF_vars(RetryNext)

(***************************************************************************)
(* PluginFinder.search_locations on any search path: beside the plugin     *)
(* directory and the archive, sys.path may name a directory without the    *)
(* package, an archive that does not exist and a file that is no archive.  *)
(***************************************************************************)
Entries == {SITE, SITE_SLASH, ZIP, LIB, MISSING_ZIP, CORRUPT_ZIP}

\* the names find_spec is asked for: the finder's packages, a package of
\* the host, a plugin module, an undeclared subpackage
Names ==
    Packages \cup { <<"yt_dlp">>, ModuleName("extractor", example.simple), FullName("other") }

\* the search paths of at most MaxPath entries
Paths == UNION { [1..n -> Entries] : n \in 0..MaxPath }

\* ModuleSpec(fullname, PluginLoader(), is_package=True) with its
\* submodule_search_locations
ModuleSpec(fullname, locations) ==
    [name |-> fullname, loader |-> "PluginLoader", is_package |-> TRUE,
     submodule_search_locations |-> locations]

\* search_locations returns its list, or an exception leaves it; an archive
\* that enters the cache was read
fd_end(found) ==
    /\ fd_pc' = IF found.raised THEN "raised" ELSE "returned"
    /\ fd_locations' = found.locations
    /\ zip_cache' = found.cache
    /\ zip_reads' = [ a \in DOMAIN zip_reads |->
                        IF a \in found.reads /\ zip_reads[a] < MaxReads
                          THEN zip_reads[a] + 1 ELSE zip_reads[a] ]

\* finder.search_locations(fullname)
fd_search ==
    /\ fd_pc = "idle"
    /\ \E fullname \in Packages :
          /\ fd_fullname' = fullname
          /\ fd_end(search_locations(fullname, sys_path, zip_cache))
    /\ UNCHANGED fd_spec
    /\ UNCHANGED <<initialized, meta_path, sys_path, pkg_path, sys_modules, execs, ns_ie,
                   ns_pp, all_classes, FOUND, OVERRIDDEN, ie_plugins, pp_plugins, installed,
                   site_dirs, last_op, prev_op, was_reset, collected, lost, snaps>>
    /\ UNCHANGED retry_vars
    /\ UNCHANGED patch_vars
    /\ UNCHANGED estimate_vars
    /\ UNCHANGED header_vars
    /\ UNCHANGED collide_vars
    /\ UNCHANGED outcome_vars
    /\ UNCHANGED caller_vars

\* find_spec returns None or the spec made of the locations found, unless
\* search_locations raised
spec_found(fullname, found) ==
    /\ fd_end(found)
    /\ fd_spec' = [called |-> TRUE,
                   returned |-> IF found.raised \/ found.locations = << >>
                                  THEN NoSpec ELSE ModuleSpec(fullname, found.locations)]

\* finder.find_spec(fullname)
fd_find_spec ==
    /\ fd_pc = "idle"
    /\ \E fullname \in Names :
          /\ fd_fullname' = fullname
          /\ IF fullname \notin Packages
               THEN spec_found(fullname, [locations |-> << >>, cache |-> zip_cache,
                                          raised |-> FALSE, reads |-> {}])
               ELSE spec_found(fullname, search_locations(fullname, sys_path, zip_cache))
    /\ UNCHANGED <<initialized, meta_path, sys_path, pkg_path, sys_modules, execs, ns_ie,
                   ns_pp, all_classes, FOUND, OVERRIDDEN, ie_plugins, pp_plugins, installed,
                   site_dirs, last_op, prev_op, was_reset, collected, lost, snaps>>
    /\ UNCHANGED retry_vars
    /\ UNCHANGED patch_vars
    /\ UNCHANGED estimate_vars
    /\ UNCHANGED header_vars
    /\ UNCHANGED collide_vars
    /\ UNCHANGED outcome_vars
    /\ UNCHANGED caller_vars

\* finder.invalidate_caches()
fd_invalidate ==
    /\ fd_pc = "idle"
    /\ zip_cache' = {}
    /\ pkg_path' = invalidate_caches(pkg_path)
    /\ zip_reads' = [ a \in DOMAIN zip_reads |-> 0 ]
    /\ UNCHANGED fd_spec
    /\ UNCHANGED <<initialized, meta_path, sys_path, sys_modules, execs, ns_ie,
                   ns_pp, all_classes, FOUND, OVERRIDDEN, ie_plugins, pp_plugins, installed,
                   site_dirs, last_op, prev_op, was_reset, collected, lost, snaps>>
    /\ UNCHANGED finder_vars
    /\ UNCHANGED retry_vars
    /\ UNCHANGED patch_vars
    /\ UNCHANGED estimate_vars
    /\ UNCHANGED header_vars
    /\ UNCHANGED collide_vars
    /\ UNCHANGED outcome_vars
    /\ UNCHANGED caller_vars

\* the caller goes on; the finder keeps its archive cache
fd_continue ==
    /\ fd_pc # "idle"
    /\ fd_pc' = "idle"
    /\ fd_fullname' = << >>
    /\ fd_locations' = << >>
    /\ fd_spec' = [called |-> FALSE, returned |-> NoSpec]
    /\ UNCHANGED zip_reads
    /\ UNCHANGED loader_vars
    /\ UNCHANGED retry_vars
    /\ UNCHANGED patch_vars
    /\ UNCHANGED estimate_vars
    /\ UNCHANGED header_vars
    /\ UNCHANGED collide_vars
    /\ UNCHANGED outcome_vars
    /\ UNCHANGED caller_vars

FinderInit ==
    /\ sys_path \in Paths
    /\ LoaderStart
    /\ installed = {}
    /\ Len(all_classes) = 2
    /\ RetryIdle
    /\ FinderIdle
    /\ PatchIdle /\ CallerIdle /\ OutcomeIdle /\ CollideIdle /\ LookupIdle /\ HeaderIdle
    /\ EstimateIdle

FinderNext == fd_search \/ fd_find_spec \/ fd_invalidate \/ fd_continue

SpecFinder == FinderInit /\ [][FinderNext]_vars

(***************************************************************************)
(* Patching the host (src/ytdlp_plugins/patching.py).  _PATCHES is one     *)
(* tuple of three context managers, built when the module is imported;     *)
(* patch_context() and every function that patch_decorator wraps enter and *)
(* leave these same three objects.  The first two are unittest.mock        *)
(* patchers: entering one stores the attribute's current value as its      *)
(* temp_original and sets the replacement, leaving one sets temp_original  *)
(* back and deletes it, and leaving one that holds no temp_original raises *)
(* before it sets anything.                                                *)
(***************************************************************************)

\* patch_function_globals.__init__ without its warning
patch_function_globals_quiet(globals, global_object, global_name) ==
    [self |-> [name |-> IF global_name \in DOMAIN globals THEN global_name ELSE NoName,
               obj |-> global_object],
     warnings |-> << >>]

\* patch_function_globals.__init__: the instance, and the warnings it emits
patch_function_globals(globals, global_object, global_name) ==
    [self |-> [name |-> IF global_name \in DOMAIN globals THEN global_name ELSE NoName,
               obj |-> global_object],
     warnings |-> IF global_name \in DOMAIN globals THEN << >> ELSE << global_name >>]

\* patch_function_globals.switch_object
switch_object(self, globals) ==
    IF self.name = NoName
      THEN [self |-> self, globals |-> globals]
      ELSE [self |-> [self EXCEPT !.obj = globals[self.name]],
            globals |-> [globals EXCEPT ![self.name] = self.obj]]

\* the host as a block finds it
HostState == [host |-> host_attrs, globals |-> fn_globals]

PatchOp(op, before, by_exception, raised) ==
    pt_last' = [op |-> op, before |-> before, by_exception |-> by_exception, raised |-> raised]

\* _PATCHES[2].__enter__ and __exit__
switch_patch(switched) ==
    /\ fn_globals' = switched.globals
    /\ pfg_patch' = switched.self

\* "with patch_context():", or the call of a function that patch_decorator
\* wraps: the three patches are entered in their order
patch_context_enter ==
    /\ Len(blocks) < MaxDepth
    /\ mock_saved' = host_attrs
    /\ host_attrs' = [ a \in MockTargets |-> Replacement(a) ]
    /\ switch_patch(switch_object(pfg_patch, fn_globals))
    /\ blocks' = Append(blocks, HostState)
    /\ PatchOp("enter", HostState, FALSE, FALSE)
    /\ UNCHANGED <<pfg_user, warned, br_call>>
    /\ UNCHANGED loader_vars
    /\ UNCHANGED retry_vars
    /\ UNCHANGED finder_vars
    /\ UNCHANGED estimate_vars
    /\ UNCHANGED header_vars
    /\ UNCHANGED lookup_vars
    /\ UNCHANGED collide_vars
    /\ UNCHANGED outcome_vars
    /\ UNCHANGED caller_vars

\* the innermost block is left, by its end or by an exception raised in it:
\* ExitStack.close() leaves the three patches in reverse order, every one of
\* them also when another has raised
patch_context_exit ==
    /\ blocks # << >>
    /\ \E by_exception \in BOOLEAN :
          PatchOp("exit", blocks[Len(blocks)], by_exception,
                  \E a \in MockTargets : mock_saved[a] = Unset)
    /\ switch_patch(switch_object(pfg_patch, fn_globals))
    /\ host_attrs' = [ a \in MockTargets |->
                         IF mock_saved[a] = Unset THEN host_attrs[a] ELSE mock_saved[a] ]
    /\ mock_saved' = [ a \in MockTargets |-> Unset ]
    /\ blocks' = SubSeq(blocks, 1, Len(blocks) - 1)
    /\ UNCHANGED <<pfg_user, warned, br_call>>
    /\ UNCHANGED loader_vars
    /\ UNCHANGED retry_vars
    /\ UNCHANGED finder_vars
    /\ UNCHANGED estimate_vars
    /\ UNCHANGED header_vars
    /\ UNCHANGED lookup_vars
    /\ UNCHANGED collide_vars
    /\ UNCHANGED outcome_vars
    /\ UNCHANGED caller_vars

\* the names a caller may pass as global_name: a global of the function,
\* and the name test_patch_function_globals_warning passes
GlobalNames == {"windows_enable_vt_mode", "_undefined"}

made_patch(made, global_name) ==
    /\ pfg_user' = [made |-> TRUE, asked |-> global_name, name |-> made.self.name,
                    obj |-> made.self.obj, depth |-> 0]
    /\ warned' = warned \o made.warnings

\* patch_function_globals(yt_dlp.YoutubeDL.__init__, windows_enable_vt_mode,
\* global_name=...), as SKIP_VT_MODE is constructed
pfg_init ==
    /\ ~pfg_user.made
    /\ \E global_name \in GlobalNames :
          made_patch(patch_function_globals(fn_globals, Replacement("windows_enable_vt_mode"),
                                            global_name),
                     global_name)
    /\ PatchOp("pfg_init", HostState, FALSE, FALSE)
    /\ UNCHANGED <<host_attrs, fn_globals, mock_saved, pfg_patch, blocks, br_call>>
    /\ UNCHANGED loader_vars
    /\ UNCHANGED retry_vars
    /\ UNCHANGED finder_vars
    /\ UNCHANGED estimate_vars
    /\ UNCHANGED header_vars
    /\ UNCHANGED lookup_vars
    /\ UNCHANGED collide_vars
    /\ UNCHANGED outcome_vars
    /\ UNCHANGED caller_vars

switch_user(switched, depth) ==
    /\ fn_globals' = switched.globals
    /\ pfg_user' = [pfg_user EXCEPT !.name = switched.self.name, !.obj = switched.self.obj,
                                    !.depth = depth]

\* patch_function_globals.__enter__
pfg_enter ==
    /\ pfg_user.made
    /\ pfg_user.depth < MaxDepth
    /\ switch_user(switch_object([name |-> pfg_user.name, obj |-> pfg_user.obj], fn_globals),
                   pfg_user.depth + 1)
    /\ PatchOp("pfg_enter", HostState, FALSE, FALSE)
    /\ UNCHANGED <<host_attrs, mock_saved, pfg_patch, warned, blocks, br_call>>
    /\ UNCHANGED loader_vars
    /\ UNCHANGED retry_vars
    /\ UNCHANGED finder_vars
    /\ UNCHANGED estimate_vars
    /\ UNCHANGED header_vars
    /\ UNCHANGED lookup_vars
    /\ UNCHANGED collide_vars
    /\ UNCHANGED outcome_vars
    /\ UNCHANGED caller_vars

\* patch_function_globals.__exit__
pfg_exit ==
    /\ pfg_user.depth > 0
    /\ switch_user(switch_object([name |-> pfg_user.name, obj |-> pfg_user.obj], fn_globals),
                   pfg_user.depth - 1)
    /\ PatchOp("pfg_exit", HostState, FALSE, FALSE)
    /\ UNCHANGED <<host_attrs, mock_saved, pfg_patch, warned, blocks, br_call>>
    /\ UNCHANGED loader_vars
    /\ UNCHANGED retry_vars
    /\ UNCHANGED finder_vars
    /\ UNCHANGED estimate_vars
    /\ UNCHANGED header_vars
    /\ UNCHANGED lookup_vars
    /\ UNCHANGED collide_vars
    /\ UNCHANGED outcome_vars
    /\ UNCHANGED caller_vars

(***************************************************************************)
(* The bug-report wrapper.  The call stack is the sequence of its frames,  *)
(* innermost first, each frame being the value of its local "ie".          *)
(***************************************************************************)
\* f_locals.get("ie") of a frame without that local
NoneObject == [name |-> <<"None">>, mod |-> << >>, ex |-> 0]

\* str() of a class, or of None
str(obj) ==
    IF obj = NoneObject THEN <<"None">>
    ELSE <<"<class '">> \o obj.mod \o <<".">> \o obj.name \o <<"'>">>

\* extractor/example.py:28, the class of the plugins that declares IE_BUG_REPORT
IE_BUG_REPORT == "please report this issue on https://github.com/flashdagger/ytdlp-plugins"

has_bug_report(cls) ==
    cls.mod = ModuleName("extractor", example.simple) /\ cls.name = <<"Example", IE>>

\* what the host's own bug_reports_message returns
OriginalMessage == <<"; please report this issue on https://github.com/yt-dlp/yt-dlp">>

\* calling_plugin_class
RECURSIVE first_plugin(_, _)
first_plugin(plugins, frames) ==
    IF frames = << >> THEN NoneObject
    ELSE IF str(Head(frames)) \in plugins THEN Head(frames)
    ELSE first_plugin(plugins, Tail(frames))

calling_plugin_class(found, frames) ==
    first_plugin({ str(found[k]) : k \in DOMAIN found }, frames)

returned_for(cls) ==
    IF cls = NoneObject THEN OriginalMessage
    ELSE IF has_bug_report(cls) THEN <<"; ", IE_BUG_REPORT>>
    ELSE << >>

\* the replacement of yt_dlp.utils.bug_reports_message
bug_reports_message(found, frames) == returned_for(calling_plugin_class(found, frames))

\* the values the frames' local "ie" may have: none, a class of the host, a
\* discovered class that declares IE_BUG_REPORT, one that does not
FrameLocals ==
    {NoneObject, HostGenericIE}
    \cup { FOUND[k] : k \in (DOMAIN FOUND) \cap {<<"Example", IE>>, <<"Ignored", IE>>} }

Stacks == UNION { [1..n -> FrameLocals] : n \in 0..MaxFrames }

\* the wrapper is called, as the host calls it while it is patched
br_invoke ==
    /\ \E frames \in Stacks :
          br_call' = [called |-> TRUE, stack |-> frames,
                      result |-> bug_reports_message(FOUND, frames)]
    /\ UNCHANGED <<host_attrs, fn_globals, mock_saved, pfg_patch, pfg_user, warned, blocks, pt_last>>
    /\ UNCHANGED loader_vars
    /\ UNCHANGED retry_vars
    /\ UNCHANGED finder_vars
    /\ UNCHANGED estimate_vars
    /\ UNCHANGED header_vars
    /\ UNCHANGED lookup_vars
    /\ UNCHANGED collide_vars
    /\ UNCHANGED outcome_vars
    /\ UNCHANGED caller_vars

\* the plugin directory holds _ignore.py and example.py
PatchInit ==
    /\ LoaderInit
    /\ installed = {_ignore.simple, example.simple}
    /\ site_dirs = {"extractor", "postprocessor"}
    /\ Len(all_classes) = 2
    /\ RetryIdle
    /\ FinderIdle
    /\ PatchIdle /\ CallerIdle /\ OutcomeIdle /\ CollideIdle /\ LookupIdle /\ HeaderIdle
    /\ EstimateIdle

PatchNext ==
    \/ patch_context_enter
    \/ patch_context_exit
    \/ pfg_init
    \/ pfg_enter
    \/ pfg_exit

SpecPatch == PatchInit /\ [][PatchNext]_vars

\* the bug-report wrapper is called before and after plugins are discovered
ReportNext ==
    \/ initialize
    \/ add_plugins
    \/ br_invoke

SpecReport == PatchInit /\ [][ReportNext]_vars

(***************************************************************************)
(* estimate_filesize (src/ytdlp_plugins/utils.py).  A format is a dict,    *)
(* the function of its keys; the list's dicts are changed in place.        *)
(***************************************************************************)
\* bool(value)
truthy(value) == value.t = "int" /\ value.v # 0

\* dict.get(key)
get(item, key) == IF key \in DOMAIN item THEN item[key] ELSE None

\* item[key] = value
set_item(item, key, value) ==
    [ k \in (DOMAIN item) \cup {key} |-> IF k = key THEN value ELSE item[k] ]

SizeKeys == {"filesize", "filesize_approx", "fs_approx"}

\* the loop's body that skips a format only for its filesize
estimate_item_filesize(item, dur) ==
    IF truthy(get(item, "filesize")) THEN item
    ELSE IF truthy(get(item, "tbr"))
      THEN set_item(item, "filesize_approx", Number(128 * get(item, "tbr").v * dur.v))
    ELSE item

\* the loop's body
estimate_item(item, dur) ==
    IF \E key \in SizeKeys : truthy(get(item, key)) THEN item
    ELSE IF truthy(get(item, "tbr"))
      THEN set_item(item, "filesize_approx", Number(128 * get(item, "tbr").v * dur.v))
    ELSE item

\* estimate_filesize(formats, duration): the list as the call leaves it
estimate_filesize(fmts, dur) ==
    IF ~(fmts # << >> /\ truthy(dur)) THEN fmts
    ELSE [ i \in DOMAIN fmts |-> estimate_item(fmts[i], dur) ]

\* a format with the given keys beside its format_id
Format(extra) ==
    [ k \in {"format_id"} \cup DOMAIN extra |-> IF k = "format_id" THEN Number(1) ELSE extra[k] ]

\* the formats of the model: without and with a bitrate, the bitrate None
\* or 0, a size known, estimated or 0
Formats ==
    { Format(<< >>),
      Format([tbr |-> Number(3)]),
      Format([tbr |-> Number(0)]),
      Format([tbr |-> None]),
      Format([tbr |-> Number(3), filesize |-> Number(7)]),
      Format([tbr |-> Number(3), filesize |-> Number(0)]),
      Format([tbr |-> Number(3), filesize_approx |-> None]),
      Format([tbr |-> Number(2), filesize_approx |-> Number(9)]),
      Format([tbr |-> Number(2), fs_approx |-> Number(11)]),
      Format([filesize |-> Number(7)]) }

FormatLists == UNION { [1..n -> Formats] : n \in 0..MaxFormats }

Durations == {None, Number(0), Number(1), Number(10)}

\* estimate_filesize(formats, duration)
ef_call ==
    /\ ef_pc = "idle"
    /\ ef_pc' = "returned"
    /\ ef_before' = formats
    /\ formats' = estimate_filesize(formats, duration)
    /\ UNCHANGED duration
    /\ UNCHANGED loader_vars
    /\ UNCHANGED retry_vars
    /\ UNCHANGED finder_vars
    /\ UNCHANGED patch_vars
    /\ UNCHANGED header_vars
    /\ UNCHANGED lookup_vars
    /\ UNCHANGED collide_vars
    /\ UNCHANGED outcome_vars
    /\ UNCHANGED caller_vars

EstimateInit ==
    /\ LoaderInit
    /\ installed = {}
    /\ site_dirs = {"extractor", "postprocessor"}
    /\ Len(all_classes) = 2
    /\ RetryIdle
    /\ FinderIdle
    /\ PatchIdle /\ CallerIdle /\ OutcomeIdle /\ CollideIdle /\ LookupIdle /\ HeaderIdle
    /\ ef_pc = "idle"
    /\ formats \in FormatLists
    /\ duration \in Durations
    /\ ef_before = << >>

EstimateNext == ef_call

SpecEstimate == EstimateInit /\ [][EstimateNext]_vars

(***************************************************************************)
(* plugin_debug_header.  What a call does is the sequence of the lines it  *)
(* writes with write_debug and of its call of the original function.  The  *)
(* lines of one block are kept in one fixed order: sorted() and tabify()   *)
(* order and align them, and write one line for each item.                 *)
(***************************************************************************)
Line(kind, name) == [kind |-> kind, name |-> name]

\* the elements of a set, one after the other
RECURSIVE SetToSeq(_)
SetToSeq(set) ==
    IF set = {} THEN << >>
    ELSE LET x == CHOOSE y \in set : TRUE IN << x >> \o SetToSeq(set \ {x})

RECURSIVE Repeat(_, _)
Repeat(x, n) == IF n = 0 THEN << >> ELSE << x >> \o Repeat(x, n - 1)

RECURSIVE Flatten(_)
Flatten(seqs) == IF seqs = << >> THEN << >> ELSE Head(seqs) \o Flatten(Tail(seqs))

\* "for line in tabify(sorted(plugin_list)): write_debug": a line for every key of FOUND
plugin_lines(found) ==
    [ i \in 1..Cardinality(DOMAIN found) |-> Line("plugin", SetToSeq(DOMAIN found)[i]) ]

\* "for line in tabify(items): write_debug": a line for every entry of OVERRIDDEN
overridden_lines(overridden) ==
    Flatten([ i \in 1..Cardinality(BagToSet(overridden)) |->
                Repeat(Line("overridden", SetToSeq(BagToSet(overridden))[i].name),
                       CopiesIn(SetToSeq(BagToSet(overridden))[i], overridden)) ])

overridden_block(overridden) ==
    IF overridden # EmptyBag
      THEN << Line("collisions", << >>) >> \o overridden_lines(overridden)
      ELSE << >>

\* the wrapper that returns without calling the original when it has
\* nothing to show
plugin_debug_header_quiet(found, overridden) ==
    (IF DOMAIN found # {} THEN << Line("loaded", << >>) >> \o plugin_lines(found) ELSE << >>)
    \o overridden_block(overridden)
    \o (IF DOMAIN found # {} \/ overridden # EmptyBag THEN << Line("original", << >>) >> ELSE << >>)

\* plugin_debug_header of ytdlp_plugins/__init__.py
plugin_debug_header(found, overridden) ==
    (IF DOMAIN found # {} THEN << Line("loaded", << >>) >> \o plugin_lines(found) ELSE << >>)
    \o overridden_block(overridden)
    \o << Line("original", << >>) >>

\* plugin_debug_header of ytdlp_plugins/patching.py: it writes its version
\* when no plugin was found
plugin_debug_header_patching(found, overridden) ==
    (IF DOMAIN found # {} THEN << Line("loaded", << >>) >> \o plugin_lines(found)
                          ELSE << Line("version", << >>) >>)
    \o overridden_block(overridden)
    \o << Line("original", << >>) >>

\* what the host's print_debug_header returns
OriginalResult == "result of YoutubeDL.print_debug_header"

\* YoutubeDL.print_debug_header() while the host is patched
dh_call ==
    /\ dh_log' = plugin_debug_header(FOUND, OVERRIDDEN)
    /\ dh_result' = OriginalResult
    /\ UNCHANGED loader_vars
    /\ UNCHANGED retry_vars
    /\ UNCHANGED finder_vars
    /\ UNCHANGED patch_vars
    /\ UNCHANGED estimate_vars
    /\ UNCHANGED lookup_vars
    /\ UNCHANGED collide_vars
    /\ UNCHANGED outcome_vars
    /\ UNCHANGED caller_vars

dh_call_patching ==
    /\ dh_log' = plugin_debug_header_patching(FOUND, OVERRIDDEN)
    /\ dh_result' = OriginalResult
    /\ UNCHANGED loader_vars
    /\ UNCHANGED retry_vars
    /\ UNCHANGED finder_vars
    /\ UNCHANGED patch_vars
    /\ UNCHANGED estimate_vars
    /\ UNCHANGED lookup_vars
    /\ UNCHANGED collide_vars
    /\ UNCHANGED outcome_vars
    /\ UNCHANGED caller_vars

\* the plugin directory holds nothing, or the colliding pair
HeaderInit ==
    /\ LoaderInit
    /\ installed \in { {}, {example.simple, override.simple} }
    /\ site_dirs = {"extractor", "postprocessor"}
    /\ Len(all_classes) = 2
    /\ RetryIdle
    /\ FinderIdle
    /\ PatchIdle /\ CallerIdle /\ OutcomeIdle /\ CollideIdle /\ LookupIdle /\ HeaderIdle
    /\ EstimateIdle

HeaderNext ==
    \/ add_plugins
    \/ reset
    \/ dh_call
    \/ dh_call_patching

SpecHeader == HeaderInit /\ [][HeaderNext]_vars

(***************************************************************************)
(* load_plugins called with a mapping of the caller's own, as                *)
(* load_plugins(name, suffix, namespace) allows: "namespace = namespace or  *)
(* {}" decides which mapping object "namespace.update(classes)" changes.     *)
(***************************************************************************)
\* "namespace = namespace or {}": a mapping that is empty is false, a new
\* dict takes its place and is the one updated; the mapping passed stays as
\* it is
passed_namespace(namespace, loaded) ==
    IF namespace = << >> THEN namespace ELSE loaded.namespace

\* the mappings a caller passes: an empty one, one that binds a name no
\* plugin has, the names of the host's extractors
CallerMappings ==
    { << >>, NamespaceOf(<< HostTubeIE >>), NamespaceOf(<< HostBitChuteIE, HostGenericIE >>) }

\* the end of a call of load_plugins: what the caller holds
lp_end(namespace, loaded) ==
    /\ lp_passed' = namespace
    /\ lp_namespace' = passed_namespace(namespace, loaded)
    /\ lp_classes' = Map(loaded.classes)
    /\ OVERRIDDEN' = loaded.ov
    /\ sys_modules' = loaded.st.mods
    /\ execs' = loaded.st.execs
    /\ pkg_path' = loaded.st.pkgs
    /\ zip_cache' = loaded.st.cache

\* load_plugins("extractor", "IE", namespace)
lp_call ==
    /\ lp_pc = "idle"
    /\ lp_pc' = "returned"
    /\ \E namespace \in CallerMappings :
          lp_end(namespace,
                 load_plugins("extractor", IE, namespace,
                              [mods |-> sys_modules, execs |-> execs,
                               pkgs |-> pkg_path, cache |-> zip_cache],
                              OVERRIDDEN, lost, installed, sys_path, meta_path))
    /\ Called("load_plugins")
    /\ UNCHANGED <<initialized, meta_path, sys_path, ns_ie, ns_pp, all_classes, FOUND,
                   ie_plugins, pp_plugins, installed, site_dirs, was_reset, collected,
                   lost, snaps>>
    /\ UNCHANGED retry_vars
    /\ UNCHANGED finder_vars
    /\ UNCHANGED patch_vars
    /\ UNCHANGED estimate_vars
    /\ UNCHANGED header_vars
    /\ UNCHANGED lookup_vars
    /\ UNCHANGED collide_vars
    /\ UNCHANGED outcome_vars

CallerInit ==
    /\ LoaderInit
    /\ RetryIdle /\ FinderIdle /\ PatchIdle /\ OutcomeIdle /\ CollideIdle /\ LookupIdle
    /\ HeaderIdle /\ EstimateIdle /\ CallerIdle

CallerNext == initialize \/ reset \/ lp_call

SpecCaller == CallerInit /\ [][CallerNext]_vars

(***************************************************************************)
(* detected_collisions on any two mappings, and the merge that load_plugins *)
(* makes of them: "OVERRIDDEN.extend(detected_collisions(classes,          *)
(* namespace)); namespace.update(classes)".                                *)
(***************************************************************************)
\* the class objects the mappings bind: a class of the host, and the class
\* of a plugin module as its first and as its second execution made it
CollideObjects ==
    { HostBitChuteIE,
      [name |-> <<"BitChute", IE>>, mod |-> ModuleName("extractor", override.simple), ex |-> 1],
      [name |-> <<"BitChute", IE>>, mod |-> ModuleName("extractor", override.simple), ex |-> 2] }

CollideKeys == { <<"BitChute", IE>>, <<"_", "BitChute", IE>> }

\* the mappings of some of the names to these objects
CollideDicts == UNION { [ keys -> CollideObjects ] : keys \in SUBSET CollideKeys }

\* load_plugins, lines 181-182
dc_merge ==
    /\ dc_pc = "idle"
    /\ dc_pc' = "merged"
    /\ dc_before' = dc_to
    /\ dc_found' = detected_collisions(dc_from, dc_to)
    /\ OVERRIDDEN' = OVERRIDDEN (+) detected_collisions(dc_from, dc_to)
    /\ dc_to' = Merge(dc_to, dc_from)
    /\ UNCHANGED dc_from
    /\ UNCHANGED <<initialized, meta_path, sys_path, pkg_path, sys_modules, execs, zip_cache,
                   ns_ie, ns_pp, all_classes, FOUND, ie_plugins, pp_plugins, installed,
                   site_dirs, last_op, prev_op, was_reset, collected, lost, snaps>>
    /\ UNCHANGED retry_vars
    /\ UNCHANGED finder_vars
    /\ UNCHANGED patch_vars
    /\ UNCHANGED estimate_vars
    /\ UNCHANGED header_vars
    /\ UNCHANGED lookup_vars
    /\ UNCHANGED outcome_vars
    /\ UNCHANGED caller_vars

CollideInit ==
    /\ LoaderInit
    /\ installed = {}
    /\ site_dirs = {"extractor", "postprocessor"}
    /\ Len(all_classes) = 2
    /\ RetryIdle
    /\ FinderIdle
    /\ PatchIdle /\ CallerIdle /\ OutcomeIdle /\ HeaderIdle /\ LookupIdle
    /\ EstimateIdle
    /\ dc_pc = "idle"
    /\ dc_from \in CollideDicts
    /\ dc_to \in CollideDicts
    /\ dc_before = << >>
    /\ dc_found = EmptyBag

CollideNext == dc_merge

SpecCollide == CollideInit /\ [][CollideNext]_vars

(***************************************************************************)
(* Properties                                                              *)
(***************************************************************************)
Range(seq) == { seq[i] : i \in DOMAIN seq }

Done(op) == last_op = op

SimpleOf(module_name) == SubSeq(module_name, 5, Len(module_name))

\* the file of a plugin module of the model
FileOf(module_name) ==
    LET files == IF SubpackageOf(module_name) = "extractor"
                   THEN Range(SiteExtractorFiles) \cup {foo}
                   ELSE {examplePP, bar}
    IN CHOOSE f \in files : f.simple = SimpleOf(module_name)

SuffixOf(module_name) == IF SubpackageOf(module_name) = "extractor" THEN IE ELSE PP

\* the class definitions of the model: the host's classes, the files' class statements
NumClassDefinitions ==
    Cardinality({HostBitChuteIE, HostTubeIE, HostGenericIE, HostSponsorPP})
    + Cardinality({ <<m, n>> \in AllModuleNames \X Range(SortedAttrs) : n \in FileOf(m).defs })

\* C1: add_plugins(); reset(); add_plugins() leaves the registry (namespace
\* bindings, ordered extractor list) and the size of OVERRIDDEN as the first
\* add_plugins() left them
C1_ResetThenAddIsIdempotent ==
    ( /\ Len(snaps) >= 2
      /\ ~snaps[1].after_reset
      /\ snaps[2].after_reset
      /\ snaps[2].sys_path = snaps[1].sys_path
      /\ snaps[2].meta_path = snaps[1].meta_path ) =>
        /\ snaps[2].registry = snaps[1].registry
        /\ snaps[2].overridden = snaps[1].overridden

\* C2: however often add_plugins() is called without reset(), the ordered
\* extractor list holds no entry twice and OVERRIDDEN holds no more entries
\* than there are class definitions
C2_RepeatedAddIsBounded ==
    (~was_reset /\ \A i \in DOMAIN snaps : ~snaps[i].after_reset) =>
        /\ \A i, j \in DOMAIN all_classes : all_classes[i] = all_classes[j] => i = j
        /\ BagCardinality(OVERRIDDEN) <= NumClassDefinitions

\* C3: after add_plugins() a plugin extractor class named like a host
\* built-in is bound in the host namespace and is in the ordered list, no
\* class of OVERRIDDEN is in the ordered list, and every overridden name is
\* bound in the extractor or the postprocessor namespace
C3_BuiltinShadowing ==
    Done("add_plugins") =>
        /\ \A i \in DOMAIN ie_plugins :
             ie_plugins[i].cls.name \in {HostBitChuteIE.name, HostTubeIE.name, HostGenericIE.name} =>
                 /\ ie_plugins[i].key \in DOMAIN ns_ie
                 /\ ns_ie[ie_plugins[i].key] = ie_plugins[i].cls
                 /\ ie_plugins[i].cls \in Range(all_classes)
        /\ \A c \in BagToSet(OVERRIDDEN) :
             /\ c \notin Range(all_classes)
             /\ c.name \in (DOMAIN ns_ie) \cup (DOMAIN ns_pp)

C3_Witness ==
    /\ Done("add_plugins")
    /\ \E i \in DOMAIN ie_plugins :
         /\ ie_plugins[i].cls.name = HostBitChuteIE.name
         /\ ie_plugins[i].cls \in Range(all_classes)
    /\ BagIn(HostBitChuteIE, OVERRIDDEN)

\* the mapping load_plugins returned for a module's namespace
ResultFor(module_name) ==
    IF SubpackageOf(module_name) = "extractor" THEN ie_plugins ELSE pp_plugins

\* C4: when two modules of one namespace were walked in one pass and both
\* yielded a class under the same name, the returned mapping binds the name
\* to the class of the module walked last, and the class of the module
\* walked earlier is in OVERRIDDEN
C4_LaterModuleWins ==
    Done("add_plugins") =>
        \A i, j \in DOMAIN collected :
            ( /\ i < j
              /\ collected[i].key = collected[j].key
              /\ SubpackageOf(collected[i].module) = SubpackageOf(collected[j].module)
              /\ collected[i].cls # collected[j].cls ) =>
                /\ BagIn(collected[i].cls, OVERRIDDEN)
                /\ (\A k \in DOMAIN collected :
                       (k > j /\ SubpackageOf(collected[k].module) = SubpackageOf(collected[j].module))
                           => collected[k].key # collected[j].key)
                     => Get(ResultFor(collected[j].module), collected[j].key) = collected[j].cls

C4_Witness ==
    /\ Done("add_plugins")
    /\ \E i, j \in DOMAIN collected :
         /\ i < j
         /\ collected[i].key = <<"Dummy", IE>>
         /\ collected[j].key = <<"Dummy", IE>>
         /\ collected[i].module = ModuleName("extractor", example.simple)
         /\ collected[j].module = ModuleName("extractor", override.simple)
         /\ collected[i].cls.mod = collected[i].module
         /\ collected[j].cls.mod = collected[j].module
         /\ BagIn(collected[i].cls, OVERRIDDEN)
         /\ Get(ie_plugins, <<"Dummy", IE>>) = collected[j].cls

\* C5: a module whose simple name starts with an underscore is never
\* executed by discovery, is never in sys.modules and yields no class
C5_UnderscoreModulesSkipped ==
    \A m \in AllModuleNames :
        startswith(SimpleOf(m), <<"_">>) =>
            /\ execs[m] = 0
            /\ sys_modules[m] = 0
            /\ \A i \in DOMAIN collected : collected[i].module # m

\* C6: a class is collected from a module only if its name ends with the
\* suffix and it is in the module's __all__ when the module declares one, or
\* does not start with an underscore when it declares none
C6_ExportRule ==
    \A i \in DOMAIN collected :
        LET file == FileOf(collected[i].module)
        IN /\ endswith(collected[i].cls.name, <<SuffixOf(collected[i].module)>>)
           /\ IF file.all.declared
                THEN collected[i].key \in file.all.names
                ELSE ~startswith(collected[i].key, <<"_">>)

\* C7: a class is collected from a module only if that module defines it
C7_DefinedHere ==
    \A i \in DOMAIN collected : collected[i].cls.mod = collected[i].module

\* the operation before the last one was reset(), called with the finder
\* installed
ResetWithFinder == prev_op = "reset" /\ last_op # "initialize" /\ initialized

C9_RetryEnds == <>(rt_pc \in {"returned", "raised"})

\* C10: the ordered extractor list holds at most one class per name, and a
\* class whose binding was replaced since the last reset() is not in the
\* list and is in OVERRIDDEN
C10_RegistryInvariant ==
    /\ \A i, j \in DOMAIN all_classes : all_classes[i].name = all_classes[j].name => i = j
    /\ \A c \in lost : c \notin Range(all_classes) /\ BagIn(c, OVERRIDDEN)

\* a plugin class of an earlier pass lost its name to the class of a later pass
C10_Witness ==
    /\ Done("add_plugins")
    /\ \E c \in lost : c.ex > 0 /\ c.name \in DOMAIN ns_ie /\ ns_ie[c.name] \in Range(all_classes)
    /\ HostBitChuteIE \in lost

\* C11: a pass of add_plugins() that follows another pass with no reset()
\* (no cache invalidation) between them executes no plugin module again
C11_ModulesExecutedOnce ==
    \A i \in DOMAIN snaps :
        (i > 1 /\ ~snaps[i].after_reset) => snaps[i].execs = snaps[i - 1].execs

\* the extractor modules of an installed set whose code raises: a module
\* imported by them is not installed
Failing(inst) ==
    { f \in inst :
        \E i \in DOMAIN FileOf(ModuleName("extractor", f)).imports :
            LET imp == FileOf(ModuleName("extractor", f)).imports[i]
            IN ~imp.host /\ SimpleOf(imp.from) \notin inst }

\* C12: a module whose import raises is not put into sys.modules, yields no
\* class and no OVERRIDDEN entry, and add_plugins() leaves the mappings, the
\* namespaces, the ordered list, OVERRIDDEN and sys.modules as it leaves
\* them when the failing module is not installed
C12_ImportErrorIsolation ==
    [][ (last_op' = "add_plugins" /\ Len(snaps') > Len(snaps)) =>
          /\ \A f \in Failing(installed) :
                /\ sys_modules'[ModuleName("extractor", f)] = sys_modules[ModuleName("extractor", f)]
                /\ \A i \in DOMAIN collected' : collected'[i].module # ModuleName("extractor", f)
                /\ \A c \in BagToSet(OVERRIDDEN') :
                      c.mod = ModuleName("extractor", f) => BagIn(c, OVERRIDDEN)
          /\ LET ie == load_plugins("extractor", IE, ns_ie,
                                    [mods |-> sys_modules, execs |-> execs,
                                     pkgs |-> pkg_path, cache |-> zip_cache],
                                    OVERRIDDEN, lost, installed \ Failing(installed),
                                    sys_path, meta_path)
                 pp == load_plugins("postprocessor", PP, ns_pp, ie.st, ie.ov, ie.lost,
                                    installed, sys_path, meta_path)
             IN /\ ie_plugins' = ie.classes
                /\ ns_ie' = ie.namespace
                /\ all_classes' = Values(ie.classes) \o remove_overridden(all_classes, ie.ov)
                /\ pp_plugins' = pp.classes
                /\ ns_pp' = pp.namespace
                /\ OVERRIDDEN' = pp.ov
                /\ sys_modules' = pp.st.mods ]_vars

\* a module that raised was executed between two modules that were loaded
C12_Witness ==
    /\ Done("add_plugins")
    /\ override.simple \in Failing(installed)
    /\ execs[ModuleName("extractor", override.simple)] > 0
    /\ sys_modules[ModuleName("extractor", override.simple)] = 0
    /\ \E i, j \in DOMAIN ie_plugins :
          /\ i < j
          /\ ie_plugins[i].cls.mod = ModuleName("extractor", auf1.simple)
          /\ ie_plugins[j].cls.mod = ModuleName("extractor", tubeLive.simple)

\* no entry of the search path holds the subpackage
NoLocation(subpackage) ==
    /\ subpackage \notin site_dirs
    /\ ZIP \notin Range(sys_path)

\* C13: when no search location holds the extractor subpackage,
\* load_plugins("extractor", ...) returns an empty mapping and leaves the
\* extractor namespace unchanged, and FOUND and OVERRIDDEN change only by
\* what the postprocessor namespace yields
C13_MissingNamespace ==
    [][ (last_op' = "add_plugins" /\ Len(snaps') > Len(snaps) /\ NoLocation("extractor")) =>
          /\ ie_plugins' = << >>
          /\ ns_ie' = ns_ie
          /\ all_classes' = all_classes
          /\ \A k \in DOMAIN FOUND' :
                (k \notin DOMAIN FOUND \/ FOUND'[k] # FOUND[k]) => endswith(k, <<PP>>)
          /\ \A c \in BagToSet(OVERRIDDEN') :
                CopiesIn(c, OVERRIDDEN') # CopiesIn(c, OVERRIDDEN) => endswith(c.name, <<PP>>)
          /\ \A c \in BagToSet(OVERRIDDEN) : CopiesIn(c, OVERRIDDEN') >= CopiesIn(c, OVERRIDDEN) ]_vars

\* add_plugins() ran without an extractor directory and found the postprocessors
C13_Witness ==
    /\ Done("add_plugins")
    /\ NoLocation("extractor")
    /\ ~pkg_path[FullName("extractor")].in
    /\ ie_plugins = << >>
    /\ pp_plugins # << >>
    /\ HostBitChuteIE \in Range(all_classes)

\* the search path without the archives that are missing or unreadable
Readable(path) == SelectSeq(path, LAMBDA e : e \notin {MISSING_ZIP, CORRUPT_ZIP})

\* C14: search_locations raises no exception, and returns the locations it
\* returns for the search path without the missing and the corrupt archives
C14_ArchiveErrorsNotFatal ==
    fd_pc # "idle" =>
        /\ fd_pc = "returned"
        /\ fd_locations = search_locations(fd_fullname, Readable(sys_path), {}).locations

\* C15: once initialize() was called, sys.meta_path holds exactly one
\* PluginFinder, at its front, whatever is called afterwards, and a later
\* initialize() changes neither sys.meta_path nor anything else of the loader
C15_FinderInstalledOnce ==
    /\ [](("initialize" \in {last_op, prev_op} \/ initialized) =>
             /\ meta_path # << >>
             /\ meta_path[1] = "PluginFinder"
             /\ Len(SelectSeq(meta_path, LAMBDA f : f = "PluginFinder")) = 1)
    /\ [][(last_op' = "initialize" /\ initialized) =>
             UNCHANGED <<initialized, meta_path, sys_path, pkg_path, sys_modules, zip_cache,
                         ns_ie, ns_pp, all_classes, FOUND, OVERRIDDEN>>]_vars

\* initialize() was called again after add_plugins() had run with the finder
C15_Witness ==
    /\ last_op = "initialize"
    /\ snaps # << >>
    /\ snaps[1].meta_path = <<"PluginFinder">>
    /\ meta_path = <<"PluginFinder">>
    /\ initialized


\* the three objects of the host that patch_context() replaces
Patched == [host |-> [ a \in MockTargets |-> Replacement(a) ],
            write_json_file |-> Replacement("write_json_file")]

Seen == [host |-> host_attrs, write_json_file |-> fn_globals["write_json_file"]]

\* C16: inside a patch_context() block bug_reports_message, print_debug_header
\* and the write_json_file global are the plugin replacements, and after the
\* block is left, by its end or by an exception, all three are the objects
\* they were before it was entered and leaving it has raised nothing itself.
\* Violated: a block entered inside another one (patch_context() in a
\* function that patch_decorator wraps, as main() is) sees the original
\* write_json_file, and leaving the outer block raises AttributeError and
\* leaves bug_reports_message and print_debug_header replaced.
C16_ScopedPatchRestores ==
    /\ blocks # << >> => Seen = Patched
    /\ pt_last.op = "exit" =>
          /\ host_attrs = pt_last.before.host
          /\ fn_globals["write_json_file"] = pt_last.before.globals["write_json_file"]
          /\ ~pt_last.raised

\* the frames of a stack whose local "ie" is a class that was discovered
OnStack(frames) == { i \in DOMAIN frames : \E k \in DOMAIN FOUND : FOUND[k] = frames[i] }

Innermost(frames) == frames[CHOOSE i \in OnStack(frames) : \A j \in OnStack(frames) : i <= j]

\* C17: the bug-report wrapper returns the bug-report string of the plugin
\* class found on the call stack (behind the separator "; ") when that class
\* declares one, and in every other case, no plugin class on the stack or one
\* that declares no string, what the host's original function returns.
\* Violated: for a plugin class without IE_BUG_REPORT the wrapper returns
\* the empty string and does not call the original.
C17_BugReportWrapper ==
    [][ br_call' # br_call =>
          IF OnStack(br_call'.stack) # {} /\ has_bug_report(Innermost(br_call'.stack))
            THEN br_call'.result = <<"; ", IE_BUG_REPORT>>
            ELSE br_call'.result = OriginalMessage ]_vars

\* C18: a patch_function_globals constructed with a global name that the
\* function's globals do not hold has emitted a RuntimeWarning that names
\* it, and entering and leaving it leaves the function's globals as they
\* are: no key is added, none is rebound.
C18_MissingGlobalIsNoOp ==
    /\ []((pfg_user.made /\ pfg_user.asked \notin DOMAIN fn_globals) =>
             \E i \in DOMAIN warned : warned[i] = pfg_user.asked)
    /\ [][ (pfg_user.made /\ pfg_user.asked \notin DOMAIN fn_globals
              /\ pfg_user'.depth # pfg_user.depth) =>
             fn_globals' = fn_globals ]_vars

C18_Witness ==
    /\ pfg_user.made
    /\ pfg_user.asked = "_undefined"
    /\ pfg_user.asked \notin DOMAIN fn_globals
    /\ warned = << "_undefined" >>
    /\ pt_last.op = "pfg_exit"
    /\ pfg_user.depth = 0
    /\ fn_globals = pt_last.before.globals

\* a class of the host itself
BuiltIn(cls) == cls.ex = 0

\* C19: after add_plugins() every extractor class discovered in this pass
\* stands, in the host's ordered extractor list, before every built-in
\* class that is left in the list.
C19_PluginsFirst ==
    Done("add_plugins") =>
        \A i \in DOMAIN ie_plugins :
            \E p \in DOMAIN all_classes :
                /\ all_classes[p] = ie_plugins[i].cls
                /\ \A b \in DOMAIN all_classes :
                      (BuiltIn(all_classes[b]) /\ all_classes[b] # ie_plugins[i].cls) => p < b

\* a second pass has put its classes first, a built-in class has left the
\* list, another is left and the generic extractor is still the last
C19_Witness ==
    /\ Done("add_plugins")
    /\ Len(snaps) = 2
    /\ Len(ie_plugins) >= 2
    /\ all_classes[1] = ie_plugins[1].cls
    /\ HostBitChuteIE \notin Range(all_classes)
    /\ HostTubeIE \in Range(all_classes)
    /\ all_classes[Len(all_classes)] = HostGenericIE

\* the formats estimate_filesize gives an estimate: a bitrate that is
\* neither None nor 0 and no size that is neither None nor 0
Eligible(item) ==
    /\ "tbr" \in DOMAIN item /\ item["tbr"] \notin {None, Number(0)}
    /\ \A key \in SizeKeys : key \in DOMAIN item => item[key] \in {None, Number(0)}

\* C20: estimate_filesize changes nothing when formats is empty or duration
\* is None or 0; otherwise exactly the items with a truthy tbr and no truthy
\* filesize, filesize_approx or fs_approx get filesize_approx = 128 * tbr *
\* duration, and every other item and every other key is left as it was.
C20_EstimateFilesize ==
    ef_pc = "returned" =>
        IF ef_before = << >> \/ duration \in {None, Number(0)}
          THEN formats = ef_before
          ELSE /\ DOMAIN formats = DOMAIN ef_before
               /\ \A i \in DOMAIN ef_before :
                     IF Eligible(ef_before[i])
                       THEN /\ DOMAIN formats[i] = (DOMAIN ef_before[i]) \cup {"filesize_approx"}
                            /\ formats[i]["filesize_approx"]
                                 = Number(128 * ef_before[i]["tbr"].v * duration.v)
                            /\ \A key \in (DOMAIN ef_before[i]) \ {"filesize_approx"} :
                                  formats[i][key] = ef_before[i][key]
                       ELSE formats[i] = ef_before[i]

\* one call has given an estimate to a format, replaced an estimate of None
\* and left a format with a known size alone
C20_Witness ==
    /\ ef_pc = "returned"
    /\ duration = Number(10)
    /\ Len(formats) = 2
    /\ ef_before[1] = Format([tbr |-> Number(3), filesize_approx |-> None])
    /\ formats[1]["filesize_approx"] = Number(3840)
    /\ ef_before[2] = Format([tbr |-> Number(2), fs_approx |-> Number(11)])
    /\ formats[2] = ef_before[2]

\* the places of a call's record that hold a line of one kind
Places(log, kind) == { i \in DOMAIN log : log[i].kind = kind }

\* C21: every call of the debug-header wrapper writes one line for each
\* class in FOUND, writes the overridden-classes block if and only if
\* OVERRIDDEN is not empty, and then calls the original exactly once, as the
\* last thing it does, and returns its result; also when FOUND and
\* OVERRIDDEN are both empty.
C21_DebugHeaderOrder ==
    [][ dh_log' # dh_log =>
          /\ Places(dh_log', "original") = { Len(dh_log') }
          /\ dh_result' = OriginalResult
          /\ \A k \in DOMAIN FOUND :
                Cardinality({ i \in Places(dh_log', "plugin") : dh_log'[i].name = k }) = 1
          /\ Cardinality(Places(dh_log', "plugin")) = Cardinality(DOMAIN FOUND)
          /\ (Places(dh_log', "collisions") # {}) <=> (OVERRIDDEN # EmptyBag)
          /\ (Places(dh_log', "overridden") # {}) <=> (OVERRIDDEN # EmptyBag) ]_vars

\* a call has written plugin lines and the overridden block before it
\* called the original
C21_Witness ==
    /\ Len(dh_log) > 4
    /\ dh_log[1].kind = "loaded"
    /\ dh_log[2].kind = "plugin"
    /\ dh_log[Len(dh_log) - 1].kind = "overridden"
    /\ dh_log[Len(dh_log)].kind = "original"
    /\ dh_result = OriginalResult

NoDuplicates(seq) == \A i, j \in DOMAIN seq : seq[i] = seq[j] => i = j

\* C22: find_spec returns no spec for a name that is not one of the finder's
\* packages and for a package without a location; for a package with a
\* location it returns a package spec of the loader that executes nothing,
\* whose submodule search locations are the list of search_locations, in
\* its order, and hold no location twice.
\* Violated: sys.path is deduplicated as strings before the entries become
\* Path objects, so the same directory written as "site" and as "site/"
\* gives its location twice.
C22_FindSpec ==
    (fd_spec.called /\ fd_pc = "returned") =>
        IF fd_fullname \notin Packages \/ fd_locations = << >>
          THEN fd_spec.returned = NoSpec
          ELSE /\ fd_spec.returned.name = fd_fullname
               /\ fd_spec.returned.is_package
               /\ fd_spec.returned.loader = "PluginLoader"
               /\ fd_spec.returned.submodule_search_locations = fd_locations
               /\ NoDuplicates(fd_spec.returned.submodule_search_locations)

\* a lookup of the finder that has returned
Lookup == fd_pc = "idle" /\ fd_pc' = "returned"

\* C23: between two invalidate_caches() calls every archive of the search
\* path is read at most once, however often and for whatever package
\* search_locations and find_spec are called; invalidate_caches() leaves the
\* cache empty and none of the finder's packages in sys.modules, and the
\* next lookup reads the archive again.
C23_ArchiveCache ==
    /\ [](\A a \in DOMAIN zip_reads : zip_reads[a] <= 1)
    /\ [][ (fd_pc = "idle" /\ fd_pc' = "idle") =>
             /\ zip_cache' = {}
             /\ \A p \in Packages : ~pkg_path'[p].in ]_vars
    /\ [][ (Lookup /\ zip_cache = {} /\ fd_fullname' \in Packages
              /\ ZIP \in Range(sys_path)) =>
             /\ ZIP \in zip_cache'
             /\ zip_reads'[ZIP] = zip_reads[ZIP] + 1 ]_vars

\* the archive was read, the cache was cleared, and the next lookup has read
\* it again
C23_Witness ==
    /\ fd_pc = "returned"
    /\ ZIP \in Range(sys_path)
    /\ zip_cache = {ZIP}
    /\ zip_reads[ZIP] = 1
    /\ ~pkg_path[PACKAGE_NAME].in

\* the names two mappings bind to different objects
Colliding(from_dict, to_dict) ==
    { k \in DOMAIN from_dict : k \in DOMAIN to_dict /\ from_dict[k] # to_dict[k] }

\* C24: detected_collisions(new, existing) returns exactly the existing
\* values of the names that both mappings bind and bind to different
\* objects, one for each such name; merging a mapping whose names the
\* target binds to the identical objects adds nothing to OVERRIDDEN.
C24_CollisionRule ==
    dc_pc = "merged" =>
        /\ \A c \in CollideObjects :
              (IF BagIn(c, dc_found) THEN CopiesIn(c, dc_found) ELSE 0)
                = Cardinality({ k \in Colliding(dc_from, dc_before) : dc_before[k] = c })
        /\ BagToSet(dc_found) \subseteq CollideObjects
        /\ OVERRIDDEN = dc_found
        /\ (\A k \in (DOMAIN dc_from) \cap (DOMAIN dc_before) : dc_from[k] = dc_before[k])
              => OVERRIDDEN = EmptyBag

\* both names collide and the target bound them to the same class, which is
\* returned twice; the update has replaced both bindings
C24_Witness ==
    /\ dc_pc = "merged"
    /\ DOMAIN dc_from = CollideKeys
    /\ DOMAIN dc_before = CollideKeys
    /\ \A k \in CollideKeys : dc_before[k] = HostBitChuteIE /\ dc_from[k] # HostBitChuteIE
    /\ CopiesIn(HostBitChuteIE, dc_found) = 2
    /\ dc_to = dc_from

\* the failed attempt is retried
Retried == rt_pc = "attempt" /\ rt_pc' = "sleep"

\* C25: for every 429 failure that is retried, the sleep before the next
\* attempt is the retry-after value of that failure's response when it has
\* one and 5 seconds otherwise, whatever earlier failures carried; the budget
\* starts at 30 seconds and every retry makes it strictly smaller.
C25_RetryBackoff ==
    [][ /\ (rt_pc = "idle" /\ rt_pc' = "attempt") => max_duration_s' = 30
        /\ Retried =>
              /\ errorcode' = 429
              /\ sleep_duration_s' =
                    (IF retry_after' # NoHeader THEN retry_after' ELSE 5)
              /\ max_duration_s' < max_duration_s ]_vars

\* the items of http_error_map whose key is the status, or holds it
Matching(status) ==
    { i \in 1..Len(http_error_map) :
        \/ http_error_map[i].is_int /\ http_error_map[i].code = status
        \/ ~http_error_map[i].is_int /\ status \in http_error_map[i].codes }

\* C26: when the operation fails with an HTTP status other than 429 that
\* http_error_map has an item for (an int key, or a collection key holding
\* it), the exception of that item leaves the call, raised from the error;
\* when no item matches, or the failure has no HTTP status, the error itself
\* is raised again.
C26_StatusMapping ==
    (rt_pc = "raised" /\ errorcode # 429) =>
        IF errorcode # NoCode /\ Matching(errorcode) # {}
          THEN /\ \E i \in Matching(errorcode) : rt_raised.what = http_error_map[i].exception
               /\ rt_raised.cause = "original"
          ELSE rt_raised = [what |-> "original", cause |-> "none"]

\* the map of Auf1IE._metadata and a failure with status 500: UnsupportedError
\* is raised from it
C26_Witness ==
    /\ rt_pc = "raised"
    /\ errorcode = 500
    /\ http_error_map = << IntKey(500, "UnsupportedError") >>
    /\ rt_raised = [what |-> "UnsupportedError", cause |-> "original"]

\* operation() has failed: the except block runs
Failed == rt_pc = "attempt" /\ rt_pc' # "returned" /\ calls' # calls

\* C27: operation() is called once more than failures were retried when the
\* call returns (and no 'Giving up' warning was written) or ends with a
\* failure inside the budget; only a 429 inside the budget is retried; a
\* failure met with the budget below zero writes the one 'Giving up' warning
\* of the call and the call raises.
C27_AttemptCount ==
    /\ [](rt_pc = "returned" => calls = retries + 1 /\ giving_up = 0)
    /\ [](rt_pc = "raised" => calls = retries + 1 /\ giving_up \in {0, 1})
    /\ [](rt_pc = "raised" /\ giving_up = 0 => errorcode # 429)
    /\ [](giving_up > 0 => rt_pc = "raised")
    /\ [][Retried => errorcode' = 429 /\ max_duration_s >= 0 /\ retries' = count(retries)]_vars
    /\ [][Failed /\ errorcode' # 429 => rt_pc' = "raised"]_vars
    /\ [][Failed /\ max_duration_s < 0 =>
            rt_pc' = "raised" /\ giving_up = 0 /\ giving_up' = 1]_vars

\* two attempts that took long were retried, the third attempt failed with
\* the budget below zero: three calls, one warning, the call raised
C27_Witness ==
    /\ rt_pc = "raised"
    /\ retries = 2
    /\ calls = 3
    /\ errorcode = 429
    /\ max_duration_s < 0
    /\ giving_up = 1

\* C28: when load_plugins was called with a mapping of the caller's, an
\* empty one too, that mapping binds every name discovered to the class
\* discovered when the call has returned, and its other keys are as before.
C28_NamespaceUpdated ==
    lp_pc = "returned" =>
        /\ \A k \in DOMAIN lp_classes :
              k \in DOMAIN lp_namespace /\ lp_namespace[k] = lp_classes[k]
        /\ \A k \in (DOMAIN lp_passed) \ (DOMAIN lp_classes) :
              k \in DOMAIN lp_namespace /\ lp_namespace[k] = lp_passed[k]
        /\ DOMAIN lp_namespace = (DOMAIN lp_passed) \cup (DOMAIN lp_classes)

\* the classes the last add_plugins() loaded are bound in the host's
\* namespaces and stand in its ordered extractor list
Active ==
    /\ \A i \in DOMAIN ie_plugins :
          /\ ie_plugins[i].key \in DOMAIN ns_ie
          /\ ns_ie[ie_plugins[i].key] = ie_plugins[i].cls
          /\ \E j \in DOMAIN all_classes : all_classes[j] = ie_plugins[i].cls
    /\ \A i \in DOMAIN pp_plugins :
          /\ pp_plugins[i].key \in DOMAIN ns_pp
          /\ ns_pp[pp_plugins[i].key] = pp_plugins[i].cls

\* C29: reset() empties FOUND and OVERRIDDEN and invalidates the import
\* caches, and nothing else: the host's two namespaces, its ordered extractor
\* list, _INITIALIZED and sys.meta_path are as before, so the classes an
\* earlier add_plugins() put into the host are still active after it.
C29_ResetFrame ==
    /\ [][last_op' = "reset" =>
            /\ FOUND' = << >>
            /\ OVERRIDDEN' = EmptyBag
            /\ (meta_path # << >> => zip_cache' = {})
            /\ ns_ie' = ns_ie
            /\ ns_pp' = ns_pp
            /\ all_classes' = all_classes
            /\ initialized' = initialized
            /\ meta_path' = meta_path]_vars
    /\ [](last_op = "reset" => Active)

\* add_plugins() has put a plugin first in the ordered list and reset()
\* followed: FOUND is empty, the plugin is still first
C29_Witness ==
    /\ last_op = "reset"
    /\ prev_op = "add_plugins"
    /\ initialized
    /\ FOUND = << >>
    /\ ie_plugins # << >>
    /\ all_classes[1] = ie_plugins[1].cls
    /\ ~BuiltIn(all_classes[1])

\* what a global of the patched function names when so many blocks of its
\* patch_function_globals instance are active
Named_by(name, active) == IF active > 0 THEN Replacement(name) ELSE Original(name)

\* C30: for one patch_function_globals instance and any properly nested
\* enters and exits, the function's global names the replacement object
\* while at least one block is active and the original object once every
\* block is left; for SKIP_VT_MODE as for the instance in _PATCHES.
C30_NestedInstance ==
    /\ (pfg_user.made /\ pfg_user.asked = "windows_enable_vt_mode") =>
          fn_globals["windows_enable_vt_mode"]
            = Named_by("windows_enable_vt_mode", pfg_user.depth)
    /\ fn_globals["write_json_file"] = Named_by("write_json_file", Len(blocks))

====
